---- MODULE Spec2Model ----
(***************************************************************************)
(* Task manager data layer (models.py): Task, TaskList and their           *)
(* validators, as run by pydantic v1.  Objects live in a heap so that      *)
(* in-place assignment (validate_assignment = True) and shallow copies     *)
(* (BaseModel.copy) act on object identities as they do in Python.         *)
(*                                                                         *)
(* Time is a counter of instants; one instant is one year, the threshold   *)
(* of Task.due_date_must_be_future.  Titles and names are sequences of     *)
(* one-character strings so that str.strip() is computed, not assumed.     *)
(* The upper length limits (title 200, description 2000, name 100) lie     *)
(* beyond the bounded input sets and are not exercised.                    *)
(***************************************************************************)
EXTENDS Integers, Sequences, FiniteSets, TLC

VARIABLES
    now,     \* the clock read by datetime.utcnow()
    heap,    \* Task objects by identity
    lists,   \* TaskList objects by identity; their tasks are held by value
    last,    \* the most recent call: operation, arguments, outcome
    user,    \* the User object of the caller
    ctx      \* the ValidationContext of the caller

vars == <<now, heap, lists, last, user, ctx>>

----------------------------------------------------------------------------
(* Bounds of the model *)

MaxTime == 2      \* instants 0..MaxTime
MaxTasks == 3     \* heap slots for Task objects
MaxLists == 2     \* slots for TaskList objects
MaxLen == 3       \* longest task sequence stored in a TaskList
MaxId == 2        \* task ids 1..MaxId

----------------------------------------------------------------------------
(* Values *)

\* Python's None for optional integers and timestamps.
Null == 0 - 1
\* Python's None for optional strings.
NoText == "<None>"
\* No error: the call returned.
OK == "OK"

\* timedelta of one year, in instants (models.py:176: now.year - 1).
OneYear == 1

Times == 0..MaxTime
Refs == 1..MaxTasks
ListRefs == 1..MaxLists
Ids == 1..MaxId

\* TaskStatus (use_enum_values: stored as the enum's string value).
TODO == "todo"
IN_PROGRESS == "in_progress"
DONE == "done"
ARCHIVED == "archived"
TaskStatus == {TODO, IN_PROGRESS, DONE, ARCHIVED}

\* Priority.
Priority == {"low", "medium", "high", "critical"}

\* An empty heap slot.  status "" is no TaskStatus.
NoTask ==
    [id |-> Null, title |-> <<>>, description |-> NoText, status |-> "",
     priority |-> "", tags |-> <<>>, due_date |-> Null, created_at |-> Null,
     completed_at |-> Null]

\* An empty TaskList slot.
NoList == [name |-> <<>>, tasks |-> <<>>, owner |-> "", created_at |-> Null]

IsTask(t) == t.status \in TaskStatus

----------------------------------------------------------------------------
(* str.strip() on a sequence of characters *)

\* The whitespace characters of the inputs.
Whitespace == {" ", "\n", "\t"}

RECURSIVE lstrip(_)
lstrip(s) ==
    IF s = <<>> THEN <<>>
    ELSE IF Head(s) \in Whitespace THEN lstrip(Tail(s))
    ELSE s

RECURSIVE rstrip(_)
rstrip(s) ==
    IF s = <<>> THEN <<>>
    ELSE IF s[Len(s)] \in Whitespace THEN rstrip(SubSeq(s, 1, Len(s) - 1))
    ELSE s

strip(s) == rstrip(lstrip(s))

----------------------------------------------------------------------------
(* Task field validators, in field order: title, due_date, created_at,      *)
(* completed_at, then the root validator.  The exceptions of exceptions.py *)
(* derive from Exception, not ValueError: pydantic does not collect them,  *)
(* they leave the constructor at once.  pydantic's own constraint errors   *)
(* are collected and raised as one ValidationError after all fields.       *)

\* Field(min_length=1) and title_must_not_be_empty.
title_must_not_be_empty(v) ==
    IF Len(v) < 1 THEN [err |-> "ValidationError", value |-> v]
    ELSE IF strip(v) = <<>> THEN [err |-> "TASK_TITLE_EMPTY", value |-> v]
    ELSE [err |-> OK, value |-> strip(v)]

\* due_date_must_be_future: rejects only a due date more than a year before
\* now.  On 29 February datetime(now.year - 1, ...) raises ValueError, which
\* the handler turns into DUE_DATE_INVALID.
due_date_must_be_future(v, t, feb29) ==
    IF v = Null THEN [err |-> OK, value |-> v]
    ELSE IF feb29 THEN [err |-> "DUE_DATE_INVALID", value |-> v]
    ELSE IF v < t - OneYear THEN [err |-> "DUE_DATE_FAR_PAST", value |-> v]
    ELSE [err |-> OK, value |-> v]

\* set_completed_at_when_done that keeps a completed_at the caller supplies.
set_completed_at_when_done_keep(v, status, t) ==
    IF status = DONE /\ v = Null THEN t
    ELSE v

\* set_completed_at_when_done (always=True).
set_completed_at_when_done(v, status, t) ==
    IF status = DONE /\ v = Null THEN t
    ELSE IF status # DONE THEN Null
    ELSE v

\* A root validator that lets an ARCHIVED task without completed_at pass.
validate_task_consistency_lenient(status, completed_at) == OK

\* validate_task_consistency (root validator, skip_on_failure).
validate_task_consistency(status, completed_at) ==
    IF status = ARCHIVED /\ completed_at = Null
    THEN "ARCHIVED_WITHOUT_COMPLETION"
    ELSE OK

\* Task(**a) at instant t.  a.created_at = Null: created_at not supplied,
\* default_factory reads the clock.
Task_init(a, t, feb29) ==
    LET title == title_must_not_be_empty(a.title)
        due == due_date_must_be_future(a.due_date, t, feb29)
        created == IF a.created_at = Null THEN t ELSE a.created_at
        completed == set_completed_at_when_done(a.completed_at, a.status, t)
        root == validate_task_consistency(a.status, completed)
        err == IF title.err = "TASK_TITLE_EMPTY" THEN title.err
               ELSE IF due.err # OK THEN due.err
               ELSE IF title.err # OK THEN title.err
               ELSE root
    IN  IF err # OK THEN [err |-> err, ret |-> NoTask]
        ELSE [err |-> OK,
              ret |-> [id |-> a.id, title |-> title.value,
                       description |-> a.description, status |-> a.status,
                       priority |-> a.priority, tags |-> a.tags,
                       due_date |-> due.value, created_at |-> created,
                       completed_at |-> completed]]

----------------------------------------------------------------------------
(* Task methods *)

\* BaseModel.copy(update={"status": s}): a shallow copy with the field
\* replaced; pydantic runs no validator on it.
copy_update_status(self, s) == [self EXCEPT !.status = s]

\* mark_complete that builds its result from scratch, created_at included.
mark_complete_rebuilt(self, t) ==
    IF self.status = DONE
    THEN [err |-> "ALREADY_COMPLETED", post |-> self, ret |-> NoTask]
    ELSE IF self.status = ARCHIVED
    THEN [err |-> "ARCHIVED_TASK_COMPLETION", post |-> self, ret |-> NoTask]
    ELSE [err |-> OK, post |-> self,
          ret |-> [self EXCEPT !.status = DONE, !.completed_at = t,
                               !.created_at = t]]

\* mark_complete that sets status and completed_at on the receiver itself.
mark_complete_in_place(self, t) ==
    IF self.status = DONE
    THEN [err |-> "ALREADY_COMPLETED", post |-> self, ret |-> NoTask]
    ELSE IF self.status = ARCHIVED
    THEN [err |-> "ARCHIVED_TASK_COMPLETION", post |-> self, ret |-> NoTask]
    ELSE [err |-> OK,
          post |-> [self EXCEPT !.status = DONE, !.completed_at = t],
          ret |-> [self EXCEPT !.status = DONE, !.completed_at = t]]

\* mark_complete without its check for a task that is already DONE.
mark_complete_again(self, t) ==
    IF self.status = ARCHIVED
    THEN [err |-> "ARCHIVED_TASK_COMPLETION", post |-> self, ret |-> NoTask]
    ELSE [err |-> OK, post |-> self,
          ret |-> [self EXCEPT !.status = DONE, !.completed_at = t]]

\* Task.mark_complete at instant t: the error, the receiver afterwards
\* (the method assigns nothing on self) and the returned copy.
mark_complete(self, t) ==
    IF self.status = DONE
    THEN [err |-> "ALREADY_COMPLETED", post |-> self, ret |-> NoTask]
    ELSE IF self.status = ARCHIVED
    THEN [err |-> "ARCHIVED_TASK_COMPLETION", post |-> self, ret |-> NoTask]
    ELSE [err |-> OK, post |-> self,
          ret |-> [self EXCEPT !.status = DONE, !.completed_at = t]]

----------------------------------------------------------------------------
(* In-place assignment under validate_assignment = True: pydantic           *)
(* validates the assigned field alone, then runs the root validator on the *)
(* resulting values; on an error the object keeps its old values.          *)

\* task.status = s
setattr_status(self, s) ==
    LET err == validate_task_consistency(s, self.completed_at)
    IN  IF err # OK THEN [err |-> err, post |-> self]
        ELSE [err |-> OK, post |-> [self EXCEPT !.status = s]]

\* task.completed_at = v
setattr_completed_at(self, v, t) ==
    LET c == set_completed_at_when_done(v, self.status, t)
        err == validate_task_consistency(self.status, c)
    IN  IF err # OK THEN [err |-> err, post |-> self]
        ELSE [err |-> OK, post |-> [self EXCEPT !.completed_at = c]]

\* task.due_date = v
setattr_due_date(self, v, t, feb29) ==
    LET due == due_date_must_be_future(v, t, feb29)
        err == IF due.err # OK THEN due.err
               ELSE validate_task_consistency(self.status, self.completed_at)
    IN  IF err # OK THEN [err |-> err, post |-> self]
        ELSE [err |-> OK, post |-> [self EXCEPT !.due_date = due.value]]

----------------------------------------------------------------------------
(* The record of a call *)

NoArgs == [none |-> TRUE]
NoDetails == [none |-> TRUE]

\* op, the instant, the arguments, the error code (OK: none), the receiver
\* before and after, the object returned, the error's details.
Call(op, args, err, pre, post, ret) ==
    [op |-> op, at |-> now, args |-> args, err |-> err,
     pre |-> pre, post |-> post, ret |-> ret, details |-> NoDetails]

\* No call yet, or the caller is done with the outcome of the last one.
\* No User object.
NoUser ==
    [id |-> Null, username |-> <<>>, email |-> <<>>, full_name |-> NoText,
     is_active |-> FALSE, task_lists |-> <<>>, exists |-> FALSE]

\* No validation context is open.
\* errors: the error list; ran: the checks executed so far (their side
\* effects); log: the calls the caller has made in the scope.
NoCtx == [open |-> FALSE, errors |-> <<>>, ran |-> <<>>, log |-> <<>>]

NoCall == [op |-> "idle", at |-> 0, args |-> NoArgs, err |-> OK,
           pre |-> NoTask, post |-> NoTask, ret |-> NoTask, details |-> NoDetails]

\* A slot the caller may bind a returned Task to: a free one, or the
\* receiver's own (t = t.mark_complete()).
Bindable(r, d) == d = r \/ heap[d] = NoTask

----------------------------------------------------------------------------
(* Inputs *)

Urgent == [name |-> "urgent", color |-> "#FF0000"]

OptTimes == {Null} \cup Times

\* id, title, description, priority and tags as callers supply them: two
\* valid combinations that differ in every field ...
ValidProfiles ==
    { [id |-> Null, title |-> <<"a">>, description |-> NoText,
       priority |-> "medium", tags |-> <<>>],
      [id |-> 1, title |-> <<" ", "b", " ">>, description |-> "d",
       priority |-> "high", tags |-> <<Urgent>>] }

\* ... and a whitespace-only and an empty title.
BadTitleProfiles ==
    { [id |-> Null, title |-> <<" ">>, description |-> NoText,
       priority |-> "medium", tags |-> <<>>],
      [id |-> Null, title |-> <<>>, description |-> NoText,
       priority |-> "medium", tags |-> <<>>] }

PlainProfile == CHOOSE p \in ValidProfiles : p.id = Null

\* Constructor arguments: every status with every completed_at; every
\* status with every due_date and created_at; the invalid titles with every
\* status, with and without a due date.
TaskArgs ==
    { p @@ [status |-> s, due_date |-> Null, created_at |-> Null, completed_at |-> k] :
        p \in ValidProfiles, s \in TaskStatus, k \in OptTimes }
    \cup
    { PlainProfile @@ [status |-> s, due_date |-> d, created_at |-> c,
                       completed_at |-> Null] :
        s \in TaskStatus, d \in OptTimes, c \in OptTimes }
    \cup
    { p @@ [status |-> s, due_date |-> d, created_at |-> Null, completed_at |-> Null] :
        p \in BadTitleProfiles, s \in TaskStatus, d \in {Null, 0} }

\* Whether the call happens on a 29 February matters only to the due_date
\* validator, and only for a due date that is present.
Feb29(d) == IF d = Null THEN {FALSE} ELSE BOOLEAN

----------------------------------------------------------------------------
(* Actions on Task objects *)

\* t = Task(**a)
NewTask(r, a, feb29) ==
    /\ heap[r] = NoTask
    /\ LET res == Task_init(a, now, feb29)
       IN  /\ heap' = [heap EXCEPT ![r] = res.ret]
           /\ last' = Call("Task", a @@ [feb29 |-> feb29], res.err,
                           NoTask, NoTask, res.ret)
    /\ UNCHANGED <<now, lists, user, ctx>>

\* The caller drops its reference to a Task.
Discard(r) ==
    /\ IsTask(heap[r])
        /\ heap' = [heap EXCEPT ![r] = NoTask]
    /\ last' = Call("del", NoArgs, OK, NoTask, NoTask, NoTask)
    /\ UNCHANGED <<now, lists, user, ctx>>

\* d = r.mark_complete()
MarkComplete(r, d) ==
    /\ IsTask(heap[r])
    /\ Bindable(r, d)
    /\ LET res == mark_complete(heap[r], now)
       IN  /\ heap' = IF res.err = OK
                      THEN [[heap EXCEPT ![r] = res.post] EXCEPT ![d] = res.ret]
                      ELSE [heap EXCEPT ![r] = res.post]
           /\ last' = Call("mark_complete", NoArgs, res.err,
                           heap[r], res.post, res.ret)
    /\ UNCHANGED <<now, lists, user, ctx>>

\* d = r.copy(update={"status": s})
CopyUpdateStatus(r, d, s) ==
    /\ IsTask(heap[r])
    /\ Bindable(r, d)
    /\ LET ret == copy_update_status(heap[r], s)
       IN  /\ heap' = [heap EXCEPT ![d] = ret]
           /\ last' = Call("copy", [status |-> s], OK, heap[r], heap[r], ret)
    /\ UNCHANGED <<now, lists, user, ctx>>

\* Task.to_dict(): self.dict(), the value of every field under its name.
Task_to_dict(self) ==
    [id |-> self.id, title |-> self.title, description |-> self.description,
     status |-> self.status, priority |-> self.priority, tags |-> self.tags,
     due_date |-> self.due_date, created_at |-> self.created_at,
     completed_at |-> self.completed_at]

\* restored = Task(**r.to_dict())
RoundTrip(r, feb29) ==
    /\ IsTask(heap[r])
    /\ LET d == Task_to_dict(heap[r])
           res == Task_init(d, now, feb29)
       IN  last' = Call("roundtrip", [dict |-> d], res.err, heap[r], heap[r], res.ret)
    /\ UNCHANGED <<now, heap, lists, user, ctx>>

\* r.status = s
SetStatus(r, s) ==
    /\ IsTask(heap[r])
    /\ LET res == setattr_status(heap[r], s)
       IN  /\ heap' = [heap EXCEPT ![r] = res.post]
           /\ last' = Call("status=", [value |-> s], res.err,
                           heap[r], res.post, NoTask)
    /\ UNCHANGED <<now, lists, user, ctx>>

\* r.completed_at = v
SetCompletedAt(r, v) ==
    /\ IsTask(heap[r])
    /\ LET res == setattr_completed_at(heap[r], v, now)
       IN  /\ heap' = [heap EXCEPT ![r] = res.post]
           /\ last' = Call("completed_at=", [value |-> v], res.err,
                           heap[r], res.post, NoTask)
    /\ UNCHANGED <<now, lists, user, ctx>>

\* r.due_date = v
SetDueDate(r, v, feb29) ==
    /\ IsTask(heap[r])
    /\ LET res == setattr_due_date(heap[r], v, now, feb29)
       IN  /\ heap' = [heap EXCEPT ![r] = res.post]
           /\ last' = Call("due_date=", [value |-> v, feb29 |-> feb29], res.err,
                           heap[r], res.post, NoTask)
    /\ UNCHANGED <<now, lists, user, ctx>>

\* Time passes.
Tick ==
    /\ now < MaxTime
    /\ now' = now + 1
    /\ UNCHANGED <<heap, lists, last, user, ctx>>

----------------------------------------------------------------------------
(* The life of one Task object: construction, mark_complete, copy with a   *)
(* status update, in-place assignment.                                      *)

Init ==
    /\ now = 0
    /\ heap = [r \in Refs |-> NoTask]
    /\ lists = [l \in ListRefs |-> NoList]
    /\ last = NoCall
    /\ user = NoUser
    /\ ctx = NoCtx

\* The one Task variable of the caller.
Subject == {r \in Refs : \A q \in Refs : r <= q}

NewTaskStep ==
    \E r \in Subject, a \in TaskArgs : \E f \in Feb29(a.due_date) : NewTask(r, a, f)
DiscardStep == \E r \in Subject : Discard(r)
MarkCompleteStep == \E r \in Subject, d \in Subject : MarkComplete(r, d)
CopyStep == \E r \in Subject, d \in Subject, s \in TaskStatus : CopyUpdateStatus(r, d, s)
SetStatusStep == \E r \in Subject, s \in TaskStatus : SetStatus(r, s)
SetCompletedAtStep == \E r \in Subject, v \in OptTimes : SetCompletedAt(r, v)
SetDueDateStep ==
    \E r \in Subject, v \in OptTimes : \E f \in Feb29(v) : SetDueDate(r, v, f)

Next ==
    \/ NewTaskStep
    \/ DiscardStep
    \/ MarkCompleteStep
    \/ CopyStep
    \/ SetStatusStep
    \/ SetCompletedAtStep
    \/ SetDueDateStep
    \/ Tick

Spec == Init /\ [][Next]_vars

\* The same with the round trip through to_dict().
RoundTripStep ==
    \E r \in Subject : \E f \in Feb29(heap[r].due_date) : RoundTrip(r, f)

NextRound ==
    \/ NewTaskStep
    \/ DiscardStep
    \/ MarkCompleteStep
    \/ CopyStep
    \/ RoundTripStep
    \/ Tick

SpecRound == Init /\ [][NextRound]_vars

\* The same without copy: constructor, mark_complete and assignments only.
NextAssign ==
    \/ NewTaskStep
    \/ DiscardStep
    \/ MarkCompleteStep
    \/ SetStatusStep
    \/ SetCompletedAtStep
    \/ SetDueDateStep
    \/ Tick

SpecAssign == Init /\ [][NextAssign]_vars

----------------------------------------------------------------------------
(* TaskList.  A TaskList value holds the field values of its tasks, in     *)
(* order; which Task objects it shares with its callers is not part of     *)
(* this section.                                                            *)

ToSet(s) == {s[i] : i \in 1..Len(s)}

\* Field(min_length=1) and name_must_not_be_empty.
name_must_not_be_empty(v) ==
    IF Len(v) < 1 THEN [err |-> "ValidationError", value |-> v]
    ELSE IF strip(v) = <<>> THEN [err |-> "TASKLIST_NAME_EMPTY", value |-> v]
    ELSE [err |-> OK, value |-> strip(v)]

\* [task.id for task in v if task.id is not None]
RECURSIVE task_ids(_)
task_ids(v) ==
    IF v = <<>> THEN <<>>
    ELSE IF Head(v).id # Null THEN <<Head(v).id>> \o task_ids(Tail(v))
    ELSE task_ids(Tail(v))

\* The loop over task_ids that fills seen and duplicates.
RECURSIVE find_duplicates(_, _, _)
find_duplicates(ids, seen, duplicates) ==
    IF ids = <<>> THEN duplicates
    ELSE find_duplicates(Tail(ids), seen \cup {Head(ids)},
                         IF Head(ids) \in seen
                         THEN duplicates \cup {Head(ids)}
                         ELSE duplicates)

\* validate_no_duplicate_task_ids counting, as total_tasks, the tasks that
\* have an id.
validate_no_duplicate_task_ids_counting(v) ==
    IF v = <<>> THEN [err |-> OK, details |-> NoDetails]
    ELSE LET ids == task_ids(v)
         IN  IF Len(ids) # Cardinality(ToSet(ids))
             THEN [err |-> "DUPLICATE_TASK_IDS_IN_LIST",
                   details |-> [duplicate_ids |-> find_duplicates(ids, {}, {}),
                                total_tasks |-> Len(ids),
                                unique_ids |-> Cardinality(ToSet(ids))]]
             ELSE [err |-> OK, details |-> NoDetails]

\* validate_no_duplicate_task_ids.  Of the details, suggestion and the
\* task_id text DuplicateTaskException adds are left out.
validate_no_duplicate_task_ids(v) ==
    IF v = <<>> THEN [err |-> OK, details |-> NoDetails]
    ELSE LET ids == task_ids(v)
         IN  IF Len(ids) # Cardinality(ToSet(ids))
             THEN [err |-> "DUPLICATE_TASK_IDS_IN_LIST",
                   details |-> [duplicate_ids |-> find_duplicates(ids, {}, {}),
                                total_tasks |-> Len(v),
                                unique_ids |-> Cardinality(ToSet(ids))]]
             ELSE [err |-> OK, details |-> NoDetails]

\* TaskList(**a) at instant t; fields in order name, tasks, owner,
\* created_at.  a.created_at = Null: not supplied.
TaskList_init(a, t) ==
    LET name == name_must_not_be_empty(a.name)
        tasks == validate_no_duplicate_task_ids(a.tasks)
        created == IF a.created_at = Null THEN t ELSE a.created_at
        err == IF name.err = "TASKLIST_NAME_EMPTY" THEN name.err
               ELSE IF tasks.err # OK THEN tasks.err
               ELSE name.err
    IN  IF err # OK
        THEN [err |-> err, ret |-> NoList,
              details |-> IF err = tasks.err THEN tasks.details ELSE NoDetails]
        ELSE [err |-> OK, details |-> NoDetails,
              ret |-> [name |-> name.value, tasks |-> a.tasks,
                       owner |-> a.owner, created_at |-> created]]

\* add_task without its check of the existing ids.
add_task_unchecked(self, task) ==
    [err |-> OK, post |-> self, details |-> NoDetails,
     ret |-> [self EXCEPT !.tasks = self.tasks \o <<task>>]]

\* add_task putting the new task in front of the others.
add_task_prepend(self, task) ==
    IF task.id # Null /\ task.id \in ToSet(task_ids(self.tasks))
    THEN [err |-> "DUPLICATE_TASK_IN_ADD", post |-> self, ret |-> NoList,
          details |-> [task_id |-> ToString(task.id), task_title |-> task.title,
                       existing_task_count |-> Len(self.tasks)]]
    ELSE [err |-> OK, post |-> self, details |-> NoDetails,
          ret |-> [self EXCEPT !.tasks = <<task>> \o self.tasks]]

\* add_task comparing the new id with the id of the last task only.
add_task_last(self, task) ==
    IF task.id # Null /\ self.tasks # <<>>
          /\ task.id = self.tasks[Len(self.tasks)].id
    THEN [err |-> "DUPLICATE_TASK_IN_ADD", post |-> self, ret |-> NoList,
          details |-> [task_id |-> ToString(task.id), task_title |-> task.title,
                       existing_task_count |-> Len(self.tasks)]]
    ELSE [err |-> OK, post |-> self, details |-> NoDetails,
          ret |-> [self EXCEPT !.tasks = self.tasks \o <<task>>]]

\* TaskList.add_task: the error, the receiver afterwards (the method
\* assigns nothing on self) and the returned copy.  details.task_id is the
\* text DuplicateTaskException puts there, str(task.id).
add_task(self, task) ==
    IF task.id # Null /\ task.id \in ToSet(task_ids(self.tasks))
    THEN [err |-> "DUPLICATE_TASK_IN_ADD", post |-> self, ret |-> NoList,
          details |-> [task_id |-> ToString(task.id), task_title |-> task.title,
                       existing_task_count |-> Len(self.tasks)]]
    ELSE [err |-> OK, post |-> self, details |-> NoDetails,
          ret |-> [self EXCEPT !.tasks = self.tasks \o <<task>>]]

\* get_overdue_tasks counting a task due at this very instant as overdue.
get_overdue_tasks_inclusive(self, t) ==
    SelectSeq(self.tasks,
              LAMBDA x : x.due_date # Null /\ x.status # DONE /\ x.due_date <= t)

\* The loop of get_overdue_tasks over tasks, appending to overdue_tasks.
\* A due_date with a timezone is not among the values: the Task constructor
\* refuses it, so the comparison with the naive clock does not raise.
RECURSIVE overdue_loop(_, _, _)
overdue_loop(tasks, t, overdue_tasks) ==
    IF tasks = <<>> THEN overdue_tasks
    ELSE LET x == Head(tasks)
         IN  IF x.due_date = Null THEN overdue_loop(Tail(tasks), t, overdue_tasks)
             ELSE IF x.status = DONE THEN overdue_loop(Tail(tasks), t, overdue_tasks)
             ELSE IF x.due_date < t
             THEN overdue_loop(Tail(tasks), t, Append(overdue_tasks, x))
             ELSE overdue_loop(Tail(tasks), t, overdue_tasks)

\* TaskList.get_overdue_tasks at instant t.
get_overdue_tasks(self, t) == overdue_loop(self.tasks, t, <<>>)

----------------------------------------------------------------------------
(* User.  Usernames, e-mail addresses, list names and owners are sequences *)
(* of one-character strings.                                                *)

LowerCase ==
    <<"a", "b", "c", "d", "e", "f", "g", "h", "i", "j", "k", "l", "m",
      "n", "o", "p", "q", "r", "s", "t", "u", "v", "w", "x", "y", "z">>
UpperCase ==
    <<"A", "B", "C", "D", "E", "F", "G", "H", "I", "J", "K", "L", "M",
      "N", "O", "P", "Q", "R", "S", "T", "U", "V", "W", "X", "Y", "Z">>
Digits == {"0", "1", "2", "3", "4", "5", "6", "7", "8", "9"}

\* The characters the pattern [a-zA-Z0-9_] (and \w, on these inputs) matches.
WordChars == ToSet(LowerCase) \cup ToSet(UpperCase) \cup Digits \cup {"_"}

\* str.lower(), one character and a whole string.
lower_char(c) ==
    IF c \in ToSet(UpperCase)
    THEN LowerCase[CHOOSE i \in 1..Len(UpperCase) : UpperCase[i] = c]
    ELSE c
lower(s) == [i \in 1..Len(s) |-> lower_char(s[i])]

\* str.count(c) and the position of the last c (0: none).
count(s, c) == Cardinality({i \in 1..Len(s) : s[i] = c})
rfind(s, c) ==
    IF count(s, c) = 0 THEN 0
    ELSE CHOOSE i \in 1..Len(s) : s[i] = c /\ \A j \in (i + 1)..Len(s) : s[j] # c

\* User.username: Field(min_length=3), then validate_username_format.
User_validate_username_format(v) ==
    IF Len(v) < 3 THEN [err |-> "ValidationError", value |-> v]
    ELSE IF strip(v) = <<>> THEN [err |-> "USERNAME_EMPTY", value |-> v]
    ELSE IF \E i \in 1..Len(v) : v[i] \notin WordChars
    THEN [err |-> "USERNAME_INVALID_FORMAT", value |-> v]
    ELSE [err |-> OK, value |-> strip(v)]

\* re.match(r"^[\w\.-]+@[\w\.-]+\.\w+$", v) for a v with exactly one "@".
email_pattern(local_part, domain_part) ==
    /\ local_part # <<>>
    /\ \A i \in 1..Len(local_part) : local_part[i] \in WordChars \cup {".", "-"}
    /\ \A i \in 1..Len(domain_part) : domain_part[i] \in WordChars \cup {".", "-"}
    /\ \E i \in 2..(Len(domain_part) - 1) :
          /\ domain_part[i] = "."
          /\ \A j \in (i + 1)..Len(domain_part) : domain_part[j] \in WordChars

\* User.validate_email_format.
User_validate_email_format(v0) ==
    IF strip(v0) = <<>> THEN [err |-> "EMAIL_EMPTY", value |-> v0]
    ELSE LET v == strip(lower(v0))
             at == rfind(v, "@")
             local_part == SubSeq(v, 1, at - 1)
             domain_part == SubSeq(v, at + 1, Len(v))
             tld == SubSeq(domain_part, rfind(domain_part, ".") + 1, Len(domain_part))
         IN  IF count(v, "@") = 0 THEN [err |-> "EMAIL_MISSING_AT_SYMBOL", value |-> v]
             ELSE IF count(v, "@") > 1
             THEN [err |-> "EMAIL_MULTIPLE_AT_SYMBOLS", value |-> v]
             ELSE IF local_part = <<>> THEN [err |-> "EMAIL_EMPTY_LOCAL_PART", value |-> v]
             ELSE IF domain_part = <<>> THEN [err |-> "EMAIL_EMPTY_DOMAIN", value |-> v]
             ELSE IF count(domain_part, ".") = 0
             THEN [err |-> "EMAIL_MISSING_TLD", value |-> v]
             ELSE IF Len(tld) < 2 THEN [err |-> "EMAIL_INVALID_TLD", value |-> v]
             ELSE IF ~email_pattern(local_part, domain_part)
             THEN [err |-> "EMAIL_INVALID_FORMAT", value |-> v]
             ELSE [err |-> OK, value |-> v]

\* list_names and normalized_names of validate_no_duplicate_task_list_names.
list_names(v) == [i \in 1..Len(v) |-> v[i].name]
normalized_names(v) == [i \in 1..Len(v) |-> lower(v[i].name)]

\* The loop over normalized_names that fills seen and duplicates.
RECURSIVE find_duplicate_names(_, _, _, _)
find_duplicate_names(names, all_names, seen, duplicates) ==
    IF names = <<>> THEN duplicates
    ELSE find_duplicate_names(
             Tail(names), all_names, seen \cup {Head(names)},
             IF Head(names) \in seen
             THEN duplicates \cup {ln \in ToSet(all_names) : lower(ln) = Head(names)}
             ELSE duplicates)

\* validate_no_duplicate_task_list_names comparing the names as they are.
validate_no_duplicate_task_list_names_exact(v) ==
    IF v = <<>> THEN [err |-> OK, details |-> NoDetails]
    ELSE LET names == list_names(v)
         IN  IF Len(names) # Cardinality(ToSet(names))
             THEN [err |-> "DUPLICATE_TASKLIST_NAMES",
                   details |-> [duplicate_names |->
                                    find_duplicate_names(names, list_names(v), {}, {}),
                                total_lists |-> Len(v),
                                unique_names |-> Cardinality(ToSet(names)),
                                comparison |-> "case-insensitive"]]
             ELSE [err |-> OK, details |-> NoDetails]

\* User.validate_no_duplicate_task_list_names.  duplicate_names, a sorted
\* list without repetitions in the code, is the set of its elements.
validate_no_duplicate_task_list_names(v) ==
    IF v = <<>> THEN [err |-> OK, details |-> NoDetails]
    ELSE LET names == normalized_names(v)
         IN  IF Len(names) # Cardinality(ToSet(names))
             THEN [err |-> "DUPLICATE_TASKLIST_NAMES",
                   details |-> [duplicate_names |->
                                    find_duplicate_names(names, list_names(v), {}, {}),
                                total_lists |-> Len(v),
                                unique_names |-> Cardinality(ToSet(names)),
                                comparison |-> "case-insensitive"]]
             ELSE [err |-> OK, details |-> NoDetails]

\* User(**a); fields in order id, username, email, full_name, is_active,
\* task_lists.  An exception of the program leaves the constructor at once;
\* pydantic reports its own errors after the last field.
User_init(a) ==
    LET username == User_validate_username_format(a.username)
        email == User_validate_email_format(a.email)
        task_lists == validate_no_duplicate_task_list_names(a.task_lists)
        err == IF username.err \notin {OK, "ValidationError"} THEN username.err
               ELSE IF email.err # OK THEN email.err
               ELSE IF task_lists.err # OK THEN task_lists.err
               ELSE username.err
    IN  IF err # OK
        THEN [err |-> err, ret |-> NoUser,
              details |-> IF err = task_lists.err THEN task_lists.details ELSE NoDetails]
        ELSE [err |-> OK, details |-> NoDetails,
              ret |-> [id |-> a.id, username |-> username.value, email |-> email.value,
                       full_name |-> a.full_name, is_active |-> a.is_active,
                       task_lists |-> a.task_lists, exists |-> TRUE]]

\* user.task_lists = v under validate_assignment.
setattr_task_lists(self, v) ==
    LET res == validate_no_duplicate_task_list_names(v)
    IN  IF res.err # OK THEN [err |-> res.err, details |-> res.details, post |-> self]
        ELSE [err |-> OK, details |-> NoDetails,
              post |-> [self EXCEPT !.task_lists = v]]

\* user.is_active = b
setattr_is_active(self, b) == [err |-> OK, post |-> [self EXCEPT !.is_active = b]]

\* BaseModel.dict() of a Task and of a TaskList.
Task_dict(t) ==
    [id |-> t.id, title |-> t.title, description |-> t.description,
     status |-> t.status, priority |-> t.priority, tags |-> t.tags,
     due_date |-> t.due_date, created_at |-> t.created_at,
     completed_at |-> t.completed_at]
TaskList_dict(tl) ==
    [name |-> tl.name, tasks |-> [i \in 1..Len(tl.tasks) |-> Task_dict(tl.tasks[i])],
     owner |-> tl.owner, created_at |-> tl.created_at]

\* User.to_dict: self.dict(), whatever is_active is.
User_to_dict(self) ==
    [err |-> OK, post |-> self,
     ret |-> [id |-> self.id, username |-> self.username, email |-> self.email,
              full_name |-> self.full_name, is_active |-> self.is_active,
              task_lists |-> [i \in 1..Len(self.task_lists) |->
                                 TaskList_dict(self.task_lists[i])]]]

\* validate_task_list_ownership looking the name up as it is given.
validate_task_list_ownership_exact(self, name) ==
    LET found == {i \in 1..Len(self.task_lists) : self.task_lists[i].name = name}
        first == CHOOSE i \in found : \A j \in found : i <= j
    IN  IF found = {}
        THEN [err |-> "TASKLIST_NOT_FOUND", post |-> self,
              details |-> [task_list_name |-> name, user_id |-> self.username,
                           available_lists |-> list_names(self.task_lists)]]
        ELSE IF self.task_lists[first].owner # self.username
        THEN [err |-> "TASKLIST_OWNERSHIP_MISMATCH", post |-> self,
              details |-> [task_list_name |-> name,
                           expected_owner |-> self.username,
                           actual_owner |-> self.task_lists[first].owner]]
        ELSE [err |-> OK, post |-> self, details |-> NoDetails]

\* User.validate_task_list_ownership(name): the lookup ignores case and
\* surrounding whitespace; is_active is not read.
validate_task_list_ownership(self, name) ==
    LET wanted == lower(strip(name))
        found == {i \in 1..Len(self.task_lists) :
                     lower(strip(self.task_lists[i].name)) = wanted}
        first == CHOOSE i \in found : \A j \in found : i <= j
    IN  IF found = {}
        THEN [err |-> "TASKLIST_NOT_FOUND", post |-> self,
              details |-> [task_list_name |-> name, user_id |-> self.username,
                           available_lists |-> list_names(self.task_lists)]]
        ELSE IF self.task_lists[first].owner # self.username
        THEN [err |-> "TASKLIST_OWNERSHIP_MISMATCH", post |-> self,
              details |-> [task_list_name |-> name,
                           expected_owner |-> self.username,
                           actual_owner |-> self.task_lists[first].owner]]
        ELSE [err |-> OK, post |-> self, details |-> NoDetails]

----------------------------------------------------------------------------
(* Actions on TaskList objects *)

Idle == last.op = "idle"

\* The caller is done with the outcome of the last call.
Return ==
    /\ ~Idle
    /\ last' = NoCall
    /\ UNCHANGED <<now, heap, lists, user, ctx>>

\* The Task objects a sequence of references names.
Deref(refs) == [i \in 1..Len(refs) |-> heap[refs[i]]]

\* l = TaskList(name=name, owner=owner, tasks=tasks, created_at=created);
\* created = Null: created_at is not supplied.
NewTaskList(l, name, owner, tasks, created) ==
    /\ lists[l] = NoList
    /\ \A i \in 1..Len(tasks) : IsTask(tasks[i])
    /\ LET a == [name |-> name, tasks |-> tasks, owner |-> owner,
                 created_at |-> created]
           res == TaskList_init(a, now)
       IN  /\ lists' = [lists EXCEPT ![l] = res.ret]
           /\ last' = [Call("TaskList", a, res.err, NoList, NoList, res.ret)
                          EXCEPT !.details = res.details]
    /\ UNCHANGED <<now, heap, user, ctx>>

\* The caller drops its reference to a TaskList.
DiscardList(l) ==
    /\ lists[l] # NoList
    /\ lists' = [lists EXCEPT ![l] = NoList]
    /\ last' = Call("del", NoArgs, OK, NoList, NoList, NoList)
    /\ UNCHANGED <<now, heap, user, ctx>>

\* d = l.add_task(heap[r]); lists grow to MaxLen tasks.
AddTask(l, r, d) ==
    /\ lists[l] # NoList
    /\ IsTask(heap[r])
    /\ Len(lists[l].tasks) < MaxLen
    /\ d = l \/ lists[d] = NoList
    /\ LET res == add_task(lists[l], heap[r])
       IN  /\ lists' = IF res.err = OK
                       THEN [[lists EXCEPT ![l] = res.post] EXCEPT ![d] = res.ret]
                       ELSE [lists EXCEPT ![l] = res.post]
           /\ last' = [Call("add_task", [task |-> heap[r]], res.err,
                            lists[l], res.post, res.ret)
                          EXCEPT !.details = res.details]
    /\ UNCHANGED <<now, heap, user, ctx>>

\* l.get_overdue_tasks(); the list returned is in last.ret.
GetOverdueTasks(l) ==
    /\ lists[l] # NoList
    /\ last' = Call("get_overdue_tasks", NoArgs, OK, lists[l], lists[l],
                    get_overdue_tasks(lists[l], now))
    /\ UNCHANGED <<now, heap, lists, user, ctx>>

----------------------------------------------------------------------------
(* Inputs of the TaskList specifications *)

\* Tasks that differ in their id only.
ListTaskArgs ==
    { [PlainProfile EXCEPT !.id = i]
          @@ [status |-> TODO, due_date |-> Null, created_at |-> Null,
              completed_at |-> Null] : i \in {Null} \cup Ids }

\* Names: two valid ones (one to be stripped), whitespace only, empty.
ListNames == { <<"w">>, <<" ", "x", " ">>, <<" ">>, <<>> }

\* One name to be stripped, one of whitespace only.
SomeNames == { <<" ", "x", " ">>, <<" ">> }

Owners == {"john"}

\* Sequences of at most n references.
RefSeqs(n) == UNION { [1..k -> Refs] : k \in 0..n }

\* The one TaskList variable of the caller.
ListSubject == {l \in ListRefs : \A q \in ListRefs : l <= q}

\* The caller looks at the outcome of a call before the next call.
ListNewTaskStep ==
    Idle /\ \E r \in Refs, a \in ListTaskArgs : NewTask(r, a, FALSE)
ListDiscardStep == Idle /\ \E r \in Refs : Discard(r)
NewTaskListStep ==
    Idle /\ \E l \in ListSubject, n \in SomeNames, o \in Owners, refs \in RefSeqs(MaxLen) :
                NewTaskList(l, n, o, Deref(refs), MaxTime)
DiscardListStep == Idle /\ \E l \in ListSubject : DiscardList(l)
AddTaskStep == Idle /\ \E l \in ListSubject, r \in Refs : AddTask(l, r, l)

\* The life of one TaskList: construction from the caller's tasks, add_task
\* with the result bound to the caller's variable (tl = tl.add_task(t)).
NextList ==
    \/ ListNewTaskStep
    \/ ListDiscardStep
    \/ NewTaskListStep
    \/ DiscardListStep
    \/ AddTaskStep
    \/ Return

SpecList == Init /\ [][NextList]_vars

\* The TaskList constructor alone, on lists of up to MaxInput tasks made
\* on the spot: TaskList(name=n, owner=o, tasks=[Task(**a) for a in args]).
MaxInput == 4

ArgSeqs(n) == UNION { [1..k -> ListTaskArgs] : k \in 0..n }

CtorStep ==
    Idle /\ \E l \in ListSubject, n \in ListNames, o \in Owners, args \in ArgSeqs(MaxInput) :
                NewTaskList(l, n, o, [i \in 1..Len(args) |-> Task_init(args[i], now, FALSE).ret],
                            Null)

NextListInit ==
    \/ CtorStep
    \/ DiscardListStep
    \/ Return

SpecListInit == Init /\ [][NextListInit]_vars

\* Tasks and lists whose callers keep the receiver: the result of
\* mark_complete and of add_task is bound to another variable
\* (done = t.mark_complete(); new_list = tl.add_task(t)), the other
\* variable being the last one of its kind.
FrameNewTaskStep ==
    Idle /\ \E r \in Subject, a \in ListTaskArgs : a.id = Null /\ NewTask(r, a, FALSE)
FrameMarkCompleteStep ==
    Idle /\ \E r \in Subject, d \in Refs :
                /\ d # r
                /\ \A q \in Refs : q <= d
                /\ MarkComplete(r, d)
FrameAddTaskStep ==
    Idle /\ \E l \in ListSubject, d \in ListRefs, r \in Refs :
                /\ d # l
                /\ \A q \in ListRefs : q <= d
                /\ AddTask(l, r, d)
FrameDiscardListStep == Idle /\ \E l \in ListRefs : DiscardList(l)

NextFrame ==
    \/ FrameNewTaskStep
    \/ ListDiscardStep
    \/ NewTaskListStep
    \/ FrameDiscardListStep
    \/ FrameAddTaskStep
    \/ FrameMarkCompleteStep
    \/ Return

SpecFrame == Init /\ [][NextFrame]_vars

\* Tasks for overdue detection, made when the list is made: open, DONE and
\* ARCHIVED tasks, without a due date and with the two latest ones, which
\* the clock reaches one after the other; created_at is supplied, and so
\* is completed_at of a DONE task.  An ARCHIVED task is a DONE task copied
\* with its status replaced.
OverdueArgs ==
    { PlainProfile @@ [status |-> s, due_date |-> d, created_at |-> 0,
                       completed_at |-> IF s = DONE THEN 0 ELSE Null] :
        s \in {TODO, DONE}, d \in {Null, MaxTime - 1, MaxTime} }

OverdueTasks(t) ==
    LET made == { Task_init(a, t, FALSE).ret : a \in OverdueArgs }
    IN  made \cup { copy_update_status(x, ARCHIVED) : x \in {y \in made : y.status = DONE} }

OverdueCtorStep ==
    Idle /\ LET made == OverdueTasks(now)
            IN  \E l \in ListSubject, o \in Owners, k \in 0..MaxLen :
                    \E tasks \in [1..k -> made] :
                        NewTaskList(l, <<"w">>, o, tasks, 0)
GetOverdueTasksStep == Idle /\ \E l \in ListSubject : GetOverdueTasks(l)
OverdueTickStep == Idle /\ Tick

\* A list is made, time passes, the overdue tasks are asked for.
NextOverdue ==
    \/ OverdueCtorStep
    \/ DiscardListStep
    \/ GetOverdueTasksStep
    \/ OverdueTickStep
    \/ Return

SpecOverdue == Init /\ [][NextOverdue]_vars

----------------------------------------------------------------------------
(* The life of one User: construction, replacement of task_lists, the      *)
(* is_active flag, to_dict and the ownership lookup.                        *)

\* u = User(**a)
NewUser(a) ==
    /\ ~user.exists
    /\ LET res == User_init(a)
       IN  /\ user' = res.ret
           /\ last' = [Call("User", a, res.err, NoUser, NoUser, res.ret)
                          EXCEPT !.details = res.details]
    /\ UNCHANGED <<now, heap, lists, ctx>>

\* The caller drops its reference to the User.
DiscardUser ==
    /\ user.exists
    /\ user' = NoUser
    /\ last' = Call("del", NoArgs, OK, NoUser, NoUser, NoUser)
    /\ UNCHANGED <<now, heap, lists, ctx>>

\* u.task_lists = v
SetTaskLists(v) ==
    /\ user.exists
    /\ LET res == setattr_task_lists(user, v)
       IN  /\ user' = res.post
           /\ last' = [Call("task_lists=", [task_lists |-> v], res.err,
                            user, res.post, NoUser)
                          EXCEPT !.details = res.details]
    /\ UNCHANGED <<now, heap, lists, ctx>>

\* u.is_active = b
SetIsActive(b) ==
    /\ user.exists
    /\ LET res == setattr_is_active(user, b)
       IN  /\ user' = res.post
           /\ last' = Call("is_active=", [value |-> b], res.err, user, res.post, NoUser)
    /\ UNCHANGED <<now, heap, lists, ctx>>

\* u.to_dict()
ToDict ==
    /\ user.exists
    /\ LET res == User_to_dict(user)
       IN  /\ user' = res.post
           /\ last' = Call("to_dict", NoArgs, res.err, user, res.post, res.ret)
    /\ UNCHANGED <<now, heap, lists, ctx>>

\* u.validate_task_list_ownership(name)
ValidateTaskListOwnership(name) ==
    /\ user.exists
    /\ LET res == validate_task_list_ownership(user, name)
       IN  /\ user' = res.post
           /\ last' = [Call("validate_task_list_ownership", [name |-> name], res.err,
                            user, res.post, NoUser)
                          EXCEPT !.details = res.details]
    /\ UNCHANGED <<now, heap, lists, ctx>>

\* Inputs.  Usernames: two valid ones, one with a space in it, one of
\* spaces only, one too short.
UserNames ==
    { <<"j", "o", "e">>, <<"a", "n", "n">>, <<"j", " ", "e">>, <<" ", " ", " ">>,
      <<"j", "o">> }

\* Owners of task lists are usernames.
UserOwners == { <<"j", "o", "e">>, <<"a", "n", "n">> }

\* E-mail addresses: one valid (to be lowercased), one without "@".
Emails == { <<"J", "@", "b", ".", "c", "o">>, <<"j", ".", "c", "o">> }

\* The task lists a user is given: names that differ in case only, and
\* another name; made when the User is made.
MaxUserLists == 3

UserListNames == { <<"W">>, <<"w">>, <<"x">> }

UserLists ==
    { TaskList_init([name |-> n, tasks |-> <<>>, owner |-> o, created_at |-> 0], 0).ret :
        n \in UserListNames, o \in UserOwners }

UserListSeqs == UNION { [1..k -> UserLists] : k \in 0..MaxUserLists }

\* Names looked up: as stored, in another case with spaces around, absent.
LookupNames == { <<"w">>, <<" ", "W", " ">>, <<"x">>, <<"y">> }

NewUserStep ==
    Idle /\ \E n \in UserNames, e \in Emails, b \in BOOLEAN, v \in UserListSeqs :
                NewUser([id |-> Null, username |-> n, email |-> e, full_name |-> NoText,
                         is_active |-> b, task_lists |-> v])
DiscardUserStep == Idle /\ DiscardUser
SetTaskListsStep == Idle /\ \E v \in UserListSeqs : SetTaskLists(v)
SetIsActiveStep == Idle /\ \E b \in BOOLEAN : SetIsActive(b)
ToDictStep == Idle /\ ToDict
ValidateTaskListOwnershipStep ==
    Idle /\ \E n \in LookupNames : ValidateTaskListOwnership(n)

NextUser ==
    \/ NewUserStep
    \/ DiscardUserStep
    \/ SetTaskListsStep
    \/ SetIsActiveStep
    \/ ToDictStep
    \/ ValidateTaskListOwnershipStep
    \/ Return

SpecUser == Init /\ [][NextUser]_vars

----------------------------------------------------------------------------
(* ValidationContext and the validation_context() scope.  A check is       *)
(* [id, fails]: running it leaves its id behind (its side effect) and, if  *)
(* it fails, raises an error that carries the id.  An error is the id of   *)
(* the call that produced it.                                              *)

\* validate that lets the error of a failed check through to the caller.
ctx_validate_reraise(self, check) ==
    IF check.fails
    THEN [err |-> "CHECK_FAILED", ret |-> FALSE,
          post |-> [self EXCEPT !.ran = Append(self.ran, check.id),
                                !.errors = Append(self.errors, check.id)]]
    ELSE [err |-> OK, ret |-> TRUE,
          post |-> [self EXCEPT !.ran = Append(self.ran, check.id)]]

\* validate that runs no check once an error is recorded.
ctx_validate_fail_fast(self, check) ==
    IF self.errors # <<>>
    THEN [err |-> OK, ret |-> FALSE, post |-> self]
    ELSE IF check.fails
    THEN [err |-> OK, ret |-> FALSE,
          post |-> [self EXCEPT !.ran = Append(self.ran, check.id),
                                !.errors = Append(self.errors, check.id)]]
    ELSE [err |-> OK, ret |-> TRUE,
          post |-> [self EXCEPT !.ran = Append(self.ran, check.id)]]

\* ValidationContext.validate(check): runs check; a failure is appended to
\* the error list and not raised.
ctx_validate(self, check) ==
    IF check.fails
    THEN [err |-> OK, ret |-> FALSE,
          post |-> [self EXCEPT !.ran = Append(self.ran, check.id),
                                !.errors = Append(self.errors, check.id)]]
    ELSE [err |-> OK, ret |-> TRUE,
          post |-> [self EXCEPT !.ran = Append(self.ran, check.id)]]

\* ValidationContext.add_error(e)
ctx_add_error(self, e) == [self EXCEPT !.errors = Append(self.errors, e)]

\* ValidationContext.has_errors() and get_errors()
ctx_has_errors(self) == self.errors # <<>>
ctx_get_errors(self) == self.errors

\* clear_errors that leaves the list as it is.
ctx_clear_errors_keep(self) == self

\* ValidationContext.clear_errors()
ctx_clear_errors(self) == [self EXCEPT !.errors = <<>>]

\* Leaving the scope with an exception only when several errors are there.
ctx_exit_several(self) ==
    IF Len(self.errors) > 1
    THEN [err |-> "MULTIPLE_VALIDATION_ERRORS",
          details |-> [errors |-> self.errors, error_count |-> Len(self.errors)]]
    ELSE [err |-> OK, details |-> NoDetails]

\* Normal exit of the validation_context() scope.
ctx_exit(self) ==
    IF self.errors # <<>>
    THEN [err |-> "MULTIPLE_VALIDATION_ERRORS",
          details |-> [errors |-> self.errors, error_count |-> Len(self.errors)]]
    ELSE [err |-> OK, details |-> NoDetails]

\* Longest sequence of validate, add_error and clear_errors calls in a scope.
MaxCalls == 4

\* with validation_context() as ctx:
CtxEnter ==
    /\ ~ctx.open
    /\ ctx' = [open |-> TRUE, errors |-> <<>>, ran |-> <<>>, log |-> <<>>]
    /\ last' = Call("enter", NoArgs, OK, NoCtx, NoCtx, NoTask)
    /\ UNCHANGED <<now, heap, lists, user>>

\* ctx.validate(check), the check being the next the caller makes.
CtxValidate(fails) ==
    /\ ctx.open
    /\ Len(ctx.log) < MaxCalls
    /\ LET check == [id |-> Len(ctx.log) + 1, fails |-> fails]
           res == ctx_validate(ctx, check)
           post == [res.post EXCEPT !.log = Append(ctx.log, [op |-> "validate", fails |-> fails])]
       IN  /\ ctx' = post
           /\ last' = Call("validate", [check |-> check], res.err, ctx, post, res.ret)
    /\ UNCHANGED <<now, heap, lists, user>>

\* ctx.add_error(e)
CtxAddError ==
    /\ ctx.open
    /\ Len(ctx.log) < MaxCalls
    /\ LET e == Len(ctx.log) + 1
           post == [ctx_add_error(ctx, e) EXCEPT
                       !.log = Append(ctx.log, [op |-> "add_error", fails |-> TRUE])]
       IN  /\ ctx' = post
           /\ last' = Call("add_error", [error |-> e], OK, ctx, post, NoTask)
    /\ UNCHANGED <<now, heap, lists, user>>

\* ctx.clear_errors()
CtxClearErrors ==
    /\ ctx.open
    /\ Len(ctx.log) < MaxCalls
    /\ LET post == [ctx_clear_errors(ctx) EXCEPT
                       !.log = Append(ctx.log, [op |-> "clear_errors", fails |-> FALSE])]
       IN  /\ ctx' = post
           /\ last' = Call("clear_errors", NoArgs, OK, ctx, post, NoTask)
    /\ UNCHANGED <<now, heap, lists, user>>

\* ctx.has_errors()
CtxHasErrors ==
    /\ ctx.open
    /\ last' = Call("has_errors", NoArgs, OK, ctx, ctx, ctx_has_errors(ctx))
    /\ UNCHANGED <<now, heap, lists, user, ctx>>

\* ctx.get_errors()
CtxGetErrors ==
    /\ ctx.open
    /\ last' = Call("get_errors", NoArgs, OK, ctx, ctx, ctx_get_errors(ctx))
    /\ UNCHANGED <<now, heap, lists, user, ctx>>

\* The with block ends normally.
CtxExit ==
    /\ ctx.open
    /\ LET res == ctx_exit(ctx)
       IN  last' = [Call("exit", NoArgs, res.err, ctx, NoCtx, NoTask)
                       EXCEPT !.details = res.details]
    /\ ctx' = NoCtx
    /\ UNCHANGED <<now, heap, lists, user>>

CtxEnterStep == Idle /\ CtxEnter
CtxValidateStep == Idle /\ \E fails \in BOOLEAN : CtxValidate(fails)
CtxAddErrorStep == Idle /\ CtxAddError
CtxClearErrorsStep == Idle /\ CtxClearErrors
CtxHasErrorsStep == Idle /\ CtxHasErrors
CtxGetErrorsStep == Idle /\ CtxGetErrors
CtxExitStep == Idle /\ CtxExit

NextCtx ==
    \/ CtxEnterStep
    \/ CtxValidateStep
    \/ CtxAddErrorStep
    \/ CtxClearErrorsStep
    \/ CtxHasErrorsStep
    \/ CtxGetErrorsStep
    \/ CtxExitStep
    \/ Return

SpecCtx == Init /\ [][NextCtx]_vars

----------------------------------------------------------------------------
(* Task objects shared between lists.  Here heap[r] is the Task object r   *)
(* and the tasks of a list are references to Task objects: self.tasks +    *)
(* [task] is a new Python list of the same objects, and copy(update=...)   *)
(* copies neither them nor the object passed in.                           *)

\* The list as a reader sees it: its fields, its tasks' fields.
view(l) ==
    IF lists[l] = NoList THEN NoList
    ELSE [lists[l] EXCEPT !.tasks = Deref(lists[l].tasks)]

views == [l \in ListRefs |-> view(l)]

\* task.id = v under validate_assignment: id has no validator of its own,
\* the root validator runs on the resulting values.
setattr_id(self, v) ==
    LET err == validate_task_consistency(self.status, self.completed_at)
    IN  IF err # OK THEN [err |-> err, post |-> self]
        ELSE [err |-> OK, post |-> [self EXCEPT !.id = v]]

\* The caller makes a Task object.
SharedNewTask(r, a) ==
    /\ heap[r] = NoTask
    /\ LET res == Task_init(a, now, FALSE)
       IN  /\ res.err = OK
           /\ heap' = [heap EXCEPT ![r] = res.ret]
           /\ last' = Call("Task", a @@ [feb29 |-> FALSE], OK, NoTask, NoTask, res.ret)
    /\ UNCHANGED <<now, lists, user, ctx>>

\* tl = TaskList(name=..., owner=...), without tasks.
SharedNewTaskList(l) ==
    /\ lists[l] = NoList
    /\ LET a == [name |-> <<"w">>, tasks |-> <<>>, owner |-> "john", created_at |-> 0]
           res == TaskList_init(a, now)
       IN  /\ lists' = [lists EXCEPT ![l] = res.ret]
           /\ last' = Call("TaskList", a, res.err, NoList, NoList, res.ret)
    /\ UNCHANGED <<now, heap, user, ctx>>

\* d = l.add_task(r): the list returned holds the objects of l and r itself.
SharedAddTask(l, r, d) ==
    /\ lists[l] # NoList
    /\ IsTask(heap[r])
    /\ Len(lists[l].tasks) < MaxLen
    /\ LET res == add_task(view(l), heap[r])
       IN  /\ lists' = IF res.err = OK
                       THEN [lists EXCEPT ![d] = [lists[l] EXCEPT !.tasks = Append(@, r)]]
                       ELSE lists
           /\ last' = [Call("add_task", [task |-> heap[r], receiver |-> l, result |-> d],
                            res.err, views, views, res.ret)
                          EXCEPT !.details = res.details]
    /\ UNCHANGED <<now, heap, user, ctx>>

\* The caller drops a list.
SharedDiscardList(l) ==
    /\ lists[l] # NoList
    /\ lists' = [lists EXCEPT ![l] = NoList]
    /\ last' = Call("del", NoArgs, OK, NoList, NoList, NoList)
    /\ UNCHANGED <<now, heap, user, ctx>>

\* The views of the lists once the object r holds the fields of t.
views_after(r, t) ==
    [l \in ListRefs |->
        IF lists[l] = NoList THEN NoList
        ELSE [lists[l] EXCEPT !.tasks =
                 [i \in 1..Len(lists[l].tasks) |->
                     IF lists[l].tasks[i] = r THEN t ELSE heap[lists[l].tasks[i]]]]]

\* An assignment to a field of the object r, reached through the list via
\* (via.tasks[i].id = v) or through the caller's own reference (via = 0).
SharedSetAttr(r, via, field, v) ==
    /\ IsTask(heap[r])
    /\ IF via = 0 THEN TRUE
       ELSE lists[via] # NoList /\ r \in ToSet(lists[via].tasks)
    /\ LET res == IF field = "id" THEN setattr_id(heap[r], v)
                  ELSE setattr_status(heap[r], v)
       IN  /\ heap' = [heap EXCEPT ![r] = res.post]
           /\ last' = Call("setattr", [field |-> field, value |-> v, via |-> via, object |-> r],
                           res.err, views, views_after(r, res.post), NoTask)
    /\ UNCHANGED <<now, lists, user, ctx>>

\* The Task objects the caller makes.
MaxShared == 2
SharedRefs == {r \in Refs : r <= MaxShared}

SharedNewTaskStep == Idle /\ \E r \in SharedRefs, a \in ListTaskArgs : SharedNewTask(r, a)
SharedNewTaskListStep == Idle /\ \E l \in ListSubject : SharedNewTaskList(l)
SharedAddTaskStep ==
    Idle /\ \E l \in ListRefs, d \in ListRefs, r \in SharedRefs : SharedAddTask(l, r, d)
SharedDiscardListStep == Idle /\ \E l \in ListRefs : SharedDiscardList(l)
SharedSetIdStep ==
    Idle /\ \E r \in SharedRefs, via \in {0} \cup ListRefs, v \in {Null} \cup Ids :
                SharedSetAttr(r, via, "id", v)
SharedSetStatusStep ==
    Idle /\ \E r \in SharedRefs, via \in {0} \cup ListRefs, v \in {TODO, IN_PROGRESS} :
                SharedSetAttr(r, via, "status", v)

NextShared ==
    \/ SharedNewTaskStep
    \/ SharedNewTaskListStep
    \/ SharedAddTaskStep
    \/ SharedDiscardListStep
    \/ SharedSetIdStep
    \/ SharedSetStatusStep
    \/ Return

SpecShared == Init /\ [][NextShared]_vars

----------------------------------------------------------------------------
(* The exception classes.  A details dictionary is a function from keys to *)
(* values; an argument left out or None is NoText, a details argument left *)
(* out is NoDict.                                                          *)

EmptyDict == [k \in {} |-> NoText]
NoDict == [given |-> FALSE, map |-> EmptyDict]
Dict(m) == [given |-> TRUE, map |-> m]

\* if details is None: details = {}
details_or_new(details) == IF details.given THEN details.map ELSE EmptyDict

\* if value is not None: details[key] = value
set_if_given(details, key, value) ==
    IF value # NoText
    THEN [k \in DOMAIN details \cup {key} |-> IF k = key THEN value ELSE details[k]]
    ELSE details

\* TaskManagerException.__init__
TaskManagerException(message, error_code, details, field_name) ==
    [message |-> message,
     error_code |-> error_code,
     details |-> IF details.given /\ DOMAIN details.map # {} THEN details.map ELSE EmptyDict,
     field_name |-> field_name]

Default(error_code, default) == IF error_code = NoText THEN default ELSE error_code

ValidationException(message, field_name, error_code, details) ==
    TaskManagerException(message, Default(error_code, "VALIDATION_ERROR"), details, field_name)

FieldValidationException(field_name, message, invalid_value, error_code, details) ==
    ValidationException(message, field_name, Default(error_code, "FIELD_VALIDATION_ERROR"),
        Dict(set_if_given(details_or_new(details), "invalid_value", invalid_value)))

StateValidationException(message, current_state, attempted_state, error_code, details) ==
    ValidationException(message, NoText, Default(error_code, "STATE_VALIDATION_ERROR"),
        Dict(set_if_given(set_if_given(details_or_new(details), "current_state", current_state),
                          "attempted_state", attempted_state)))

DuplicateTaskException(task_id, message, error_code, details) ==
    TaskManagerException(IF message = NoText THEN "Task with ID already exists" ELSE message,
        Default(error_code, "DUPLICATE_TASK"),
        Dict(set_if_given(details_or_new(details), "task_id", task_id)), NoText)

TaskNotFoundException(task_id, message, error_code, details) ==
    TaskManagerException(IF message = NoText THEN "Task with ID not found" ELSE message,
        Default(error_code, "TASK_NOT_FOUND"),
        Dict(set_if_given(details_or_new(details), "task_id", task_id)), NoText)

InvalidStateTransitionException(message, current_status, attempted_status, error_code, details) ==
    TaskManagerException(message, Default(error_code, "INVALID_STATE_TRANSITION"),
        Dict(set_if_given(set_if_given(details_or_new(details), "current_status", current_status),
                          "attempted_status", attempted_status)), NoText)

DateValidationException(message, field_name, invalid_date, error_code, details) ==
    ValidationException(message, field_name, Default(error_code, "DATE_VALIDATION_ERROR"),
        Dict(set_if_given(details_or_new(details), "invalid_date", invalid_date)))

OwnershipException(message, resource_type, resource_id, user_id, error_code, details) ==
    TaskManagerException(message, Default(error_code, "OWNERSHIP_ERROR"),
        Dict(set_if_given(set_if_given(set_if_given(details_or_new(details),
                 "resource_type", resource_type), "resource_id", resource_id),
                 "user_id", user_id)), NoText)

\* TaskManagerException.to_dict, inherited by every class.
Exception_to_dict(self) ==
    [error_code |-> self.error_code, message |-> self.message,
     field_name |-> self.field_name, details |-> self.details]

\* What callers pass: a code of their own, the empty string or (where the
\* parameter has a default) nothing; details of their own, empty or none.
Codes == {"CUSTOM", ""}
OptCodes == Codes \cup {NoText}
OptText == {NoText, "a"}
DetailArgs == {NoDict, Dict(EmptyDict), Dict([context |-> "c"])}

\* An exception is constructed and converted: e = K(...); e.to_dict()
Raise(kind, args, e) ==
    /\ last' = Call(kind, args, OK, e, e, Exception_to_dict(e))
    /\ UNCHANGED <<now, heap, lists, user, ctx>>

RaiseBaseStep ==
    Idle /\ \E c \in Codes, d \in DetailArgs, f \in OptText :
        Raise("TaskManagerException", [error_code |-> c, details |-> d, field_name |-> f],
              TaskManagerException("m", c, d, f))
RaiseValidationStep ==
    Idle /\ \E c \in OptCodes, d \in DetailArgs, f \in OptText :
        Raise("ValidationException", [error_code |-> c, details |-> d, field_name |-> f],
              ValidationException("m", f, c, d))
RaiseFieldValidationStep ==
    Idle /\ \E c \in OptCodes, d \in DetailArgs, v \in OptText :
        Raise("FieldValidationException", [error_code |-> c, details |-> d, invalid_value |-> v],
              FieldValidationException("title", "m", v, c, d))
RaiseStateValidationStep ==
    Idle /\ \E c \in OptCodes, d \in DetailArgs, x \in OptText, y \in OptText :
        Raise("StateValidationException",
              [error_code |-> c, details |-> d, current_state |-> x, attempted_state |-> y],
              StateValidationException("m", x, y, c, d))
RaiseDuplicateTaskStep ==
    Idle /\ \E c \in OptCodes, d \in DetailArgs, m \in OptText :
        Raise("DuplicateTaskException", [error_code |-> c, details |-> d, message |-> m],
              DuplicateTaskException("1", m, c, d))
RaiseTaskNotFoundStep ==
    Idle /\ \E c \in OptCodes, d \in DetailArgs, m \in OptText :
        Raise("TaskNotFoundException", [error_code |-> c, details |-> d, message |-> m],
              TaskNotFoundException("1", m, c, d))
RaiseInvalidStateTransitionStep ==
    Idle /\ \E c \in OptCodes, d \in DetailArgs, x \in OptText, y \in OptText :
        Raise("InvalidStateTransitionException",
              [error_code |-> c, details |-> d, current_status |-> x, attempted_status |-> y],
              InvalidStateTransitionException("m", x, y, c, d))
RaiseDateValidationStep ==
    Idle /\ \E c \in OptCodes, d \in DetailArgs, f \in OptText, v \in OptText :
        Raise("DateValidationException",
              [error_code |-> c, details |-> d, field_name |-> f, invalid_date |-> v],
              DateValidationException("m", f, v, c, d))
RaiseOwnershipStep ==
    Idle /\ \E c \in OptCodes, d \in DetailArgs, x \in OptText, y \in OptText, z \in OptText :
        Raise("OwnershipException",
              [error_code |-> c, details |-> d, resource_type |-> x, resource_id |-> y,
               user_id |-> z],
              OwnershipException("m", x, y, z, c, d))

NextExc ==
    \/ RaiseBaseStep
    \/ RaiseValidationStep
    \/ RaiseFieldValidationStep
    \/ RaiseStateValidationStep
    \/ RaiseDuplicateTaskStep
    \/ RaiseTaskNotFoundStep
    \/ RaiseInvalidStateTransitionStep
    \/ RaiseDateValidationStep
    \/ RaiseOwnershipStep
    \/ Return

SpecExc == Init /\ [][NextExc]_vars

----------------------------------------------------------------------------
(* The validators of validation_utils.py.  Each returns [err, ret]; the    *)
(* action records in post the outcome of validating the returned value     *)
(* once more.                                                              *)

NoResult == [err |-> "NOT_CALLED", ret |-> <<>>]

\* str.upper(), one character and a whole string.
upper_char(c) ==
    IF c \in ToSet(LowerCase)
    THEN UpperCase[CHOOSE i \in 1..Len(LowerCase) : LowerCase[i] = c]
    ELSE c
upper(s) == [i \in 1..Len(s) |-> upper_char(s[i])]

\* The number of hexadecimal digits of the pattern.
HexLen == 6

HexDigits == Digits \cup {"a", "b", "c", "d", "e", "f", "A", "B", "C", "D", "E", "F"}

\* re.match(r"^#[0-9A-Fa-f]{6}$", value): $ matches at the end of the string
\* and also just before a newline that ends the string.
hex_pattern(value) ==
    /\ Len(value) \in {HexLen + 1, HexLen + 2}
    /\ value[1] = "#"
    /\ \A i \in 2..(HexLen + 1) : value[i] \in HexDigits
    /\ Len(value) = HexLen + 2 => value[HexLen + 2] = "\n"

validate_hex_color(value) ==
    IF value = <<>> THEN [err |-> "COLOR_EMPTY", ret |-> <<>>]
    ELSE IF ~hex_pattern(value) THEN [err |-> "INVALID_COLOR_FORMAT", ret |-> <<>>]
    ELSE [err |-> OK, ret |-> upper(value)]

\* Colors callers pass: nothing, or an optional '#', five to seven
\* characters of which some are no hexadecimal digits, and an optional
\* line end.
HexBodies == UNION { [1..k -> {"a", "F", "0", "g"}] : k \in (HexLen - 1)..(HexLen + 1) }
Colors ==
    {<<>>} \cup { p \o b \o e : p \in {<<>>, <<"#">>}, b \in HexBodies, e \in {<<>>, <<"\n">>} }

ValidateHexColor(value) ==
    /\ LET res == validate_hex_color(value)
           again == IF res.err = OK THEN validate_hex_color(res.ret) ELSE NoResult
       IN  last' = Call("validate_hex_color", [value |-> value], res.err, NoTask, again, res.ret)
    /\ UNCHANGED <<now, heap, lists, user, ctx>>

ValidateHexColorStep == Idle /\ \E v \in Colors : ValidateHexColor(v)

\* Instants are counted in units of which a day has Day; a value is a
\* datetime at an instant or an object of another type.
Day == 2
HundredYears == 365 * 100 * Day
Datetime(t) == [type |-> "datetime", t |-> t]
NotADatetime == [type |-> "str", t |-> 0]

\* validate_future_date with an exclusive lower bound.
validate_future_date_exclusive(value, allow_past_days, t) ==
    IF value.type # "datetime" THEN [err |-> "INVALID_DATE_TYPE", ret |-> value]
    ELSE LET earliest_allowed == t - allow_past_days * Day
             max_future == t + HundredYears
         IN  IF value.t <= earliest_allowed
             THEN [err |-> "DATE_NOT_IN_FUTURE", ret |-> value]
             ELSE IF value.t > max_future
             THEN [err |-> "DATE_TOO_FAR_FUTURE", ret |-> value]
             ELSE [err |-> OK, ret |-> value]

\* validate_future_date forgiving one more day than allowed.
validate_future_date_lenient(value, allow_past_days, t) ==
    IF value.type # "datetime" THEN [err |-> "INVALID_DATE_TYPE", ret |-> value]
    ELSE LET earliest_allowed == t - (allow_past_days + 1) * Day
             max_future == t + HundredYears
         IN  IF value.t < earliest_allowed
             THEN [err |-> "DATE_NOT_IN_FUTURE", ret |-> value]
             ELSE IF value.t > max_future
             THEN [err |-> "DATE_TOO_FAR_FUTURE", ret |-> value]
             ELSE [err |-> OK, ret |-> value]

\* validate_future_date(value, allow_past_days), t being datetime.now().
validate_future_date(value, allow_past_days, t) ==
    IF value.type # "datetime" THEN [err |-> "INVALID_DATE_TYPE", ret |-> value]
    ELSE LET earliest_allowed == t - allow_past_days * Day
             max_future == t + HundredYears
         IN  IF value.t < earliest_allowed
             THEN [err |-> "DATE_NOT_IN_FUTURE", ret |-> value]
             ELSE IF value.t > max_future
             THEN [err |-> "DATE_TOO_FAR_FUTURE", ret |-> value]
             ELSE [err |-> OK, ret |-> value]

\* Largest allow_past_days callers pass.
MaxPastDays == 2

\* Dates callers pass: around now, around the earliest allowed instant and
\* around the latest one, or something that is no datetime.
DateOffsets(d) ==
    {0 - d * Day - 1, 0 - d * Day, 0 - d * Day + 1, 0 - 1, 0, 1,
     HundredYears - 1, HundredYears, HundredYears + 1}

ValidateFutureDate(value, allow_past_days, field_name) ==
    /\ LET res == validate_future_date(value, allow_past_days, now)
       IN  last' = Call("validate_future_date",
                        [value |-> value, allow_past_days |-> allow_past_days,
                         field_name |-> field_name],
                        res.err, NoTask, NoTask, res.ret)
    /\ UNCHANGED <<now, heap, lists, user, ctx>>

ValidateFutureDateStep ==
    Idle /\ \E d \in 0..MaxPastDays, f \in {"date", "due_date"} :
                \E v \in {Datetime(now + o) : o \in DateOffsets(d)} \cup {NotADatetime} :
                    ValidateFutureDate(v, d, f)

\* The characters of [a-zA-Z] and of [a-zA-Z0-9].
Letters == ToSet(LowerCase) \cup ToSet(UpperCase)
Alnum == Letters \cup Digits

\* re.match(r"^[a-zA-Z0-9._%-]+@[a-zA-Z0-9.-]+\.[a-zA-Z]{2,}$", value) for a
\* value with one "@" and no line end: the domain is some characters, a
\* period and two or more letters.
email_pattern_strict(local_part, domain_part) ==
    /\ local_part # <<>>
    /\ \A i \in 1..Len(local_part) : local_part[i] \in Alnum \cup {".", "_", "%", "-"}
    /\ \E i \in 2..(Len(domain_part) - 2) :
          /\ domain_part[i] = "."
          /\ \A j \in 1..(i - 1) : domain_part[j] \in Alnum \cup {".", "-"}
          /\ \A j \in (i + 1)..Len(domain_part) : domain_part[j] \in Letters

\* validate_email_format that tests the domain's periods before its presence.
validate_email_format_reordered(value0) ==
    IF strip(value0) = <<>> THEN [err |-> "EMAIL_EMPTY", ret |-> <<>>]
    ELSE LET value == strip(value0)
             at == rfind(value, "@")
             local_part == SubSeq(value, 1, at - 1)
             domain_part == SubSeq(value, at + 1, Len(value))
         IN  IF count(value, "@") = 0 THEN [err |-> "EMAIL_MISSING_AT", ret |-> <<>>]
             ELSE IF count(value, "@") # 1 THEN [err |-> "EMAIL_MULTIPLE_AT", ret |-> <<>>]
             ELSE IF local_part = <<>> THEN [err |-> "EMAIL_EMPTY_LOCAL", ret |-> <<>>]
             ELSE IF count(domain_part, ".") = 0
             THEN [err |-> "EMAIL_INVALID_DOMAIN", ret |-> <<>>]
             ELSE IF domain_part = <<>> THEN [err |-> "EMAIL_EMPTY_DOMAIN", ret |-> <<>>]
             ELSE IF domain_part[1] = "." \/ domain_part[Len(domain_part)] = "."
             THEN [err |-> "EMAIL_INVALID_DOMAIN_FORMAT", ret |-> <<>>]
             ELSE IF ~email_pattern_strict(local_part, domain_part)
             THEN [err |-> "EMAIL_INVALID_FORMAT", ret |-> <<>>]
             ELSE [err |-> OK, ret |-> lower(value)]

\* validate_email_format(value)
validate_email_format(value0) ==
    IF strip(value0) = <<>> THEN [err |-> "EMAIL_EMPTY", ret |-> <<>>]
    ELSE LET value == strip(value0)
             at == rfind(value, "@")
             local_part == SubSeq(value, 1, at - 1)
             domain_part == SubSeq(value, at + 1, Len(value))
         IN  IF count(value, "@") = 0 THEN [err |-> "EMAIL_MISSING_AT", ret |-> <<>>]
             ELSE IF count(value, "@") # 1 THEN [err |-> "EMAIL_MULTIPLE_AT", ret |-> <<>>]
             ELSE IF local_part = <<>> THEN [err |-> "EMAIL_EMPTY_LOCAL", ret |-> <<>>]
             ELSE IF domain_part = <<>> THEN [err |-> "EMAIL_EMPTY_DOMAIN", ret |-> <<>>]
             ELSE IF count(domain_part, ".") = 0
             THEN [err |-> "EMAIL_INVALID_DOMAIN", ret |-> <<>>]
             ELSE IF domain_part[1] = "." \/ domain_part[Len(domain_part)] = "."
             THEN [err |-> "EMAIL_INVALID_DOMAIN_FORMAT", ret |-> <<>>]
             ELSE IF ~email_pattern_strict(local_part, domain_part)
             THEN [err |-> "EMAIL_INVALID_FORMAT", ret |-> <<>>]
             ELSE [err |-> OK, ret |-> lower(value)]

\* Longest email address callers pass.
MaxEmail == 7

EmailInputs == UNION { [1..k -> {"a", "B", "@", ".", " "}] : k \in 0..MaxEmail }

ValidateEmailFormat(value) ==
    /\ LET res == validate_email_format(value)
           again == IF res.err = OK THEN validate_email_format(res.ret) ELSE NoResult
       IN  last' = Call("validate_email_format", [value |-> value], res.err, NoTask, again, res.ret)
    /\ UNCHANGED <<now, heap, lists, user, ctx>>

ValidateEmailFormatStep == Idle /\ \E v \in EmailInputs : ValidateEmailFormat(v)

\* str.isalpha() on one character: the letters of the inputs, among them
\* one that is not of [a-zA-Z].
isalpha(c) == c \in Letters \cup {"é"}

\* "xy" in value
contains(value, x, y) == \E i \in 1..(Len(value) - 1) : value[i] = x /\ value[i + 1] = y

\* The characters of valid_chars.
valid_chars == Alnum \cup {"_", "-"}

\* re.match(r"^[a-zA-Z]([a-zA-Z0-9_-]*[a-zA-Z0-9])?$", value) for a value
\* without a line end.
username_pattern(value) ==
    /\ value # <<>>
    /\ value[1] \in Letters
    /\ \A i \in 1..Len(value) : value[i] \in valid_chars
    /\ value[Len(value)] \in Alnum

\* The length limits of a username.
MinUsername == 3
MaxUsername == 30

\* validate_username_format that looks at the start before the length.
validate_username_format_reordered(value0) ==
    IF strip(value0) = <<>> THEN [err |-> "USERNAME_EMPTY", ret |-> <<>>]
    ELSE LET value == strip(value0)
         IN  IF ~isalpha(value[1]) THEN [err |-> "USERNAME_INVALID_START", ret |-> <<>>]
             ELSE IF Len(value) < MinUsername THEN [err |-> "USERNAME_TOO_SHORT", ret |-> <<>>]
             ELSE IF Len(value) > MaxUsername THEN [err |-> "USERNAME_TOO_LONG", ret |-> <<>>]
             ELSE IF value[Len(value)] \in {"_", "-"}
             THEN [err |-> "USERNAME_INVALID_END", ret |-> <<>>]
             ELSE IF \/ contains(value, "_", "_") \/ contains(value, "-", "-")
                     \/ contains(value, "_", "-") \/ contains(value, "-", "_")
             THEN [err |-> "USERNAME_CONSECUTIVE_SPECIAL", ret |-> <<>>]
             ELSE IF ~username_pattern(value)
             THEN IF ToSet(value) \ valid_chars # {}
                  THEN [err |-> "USERNAME_INVALID_CHARACTERS", ret |-> <<>>]
                  ELSE [err |-> "USERNAME_INVALID_FORMAT", ret |-> <<>>]
             ELSE [err |-> OK, ret |-> value]

\* validate_username_format(value)
validate_username_format(value0) ==
    IF strip(value0) = <<>> THEN [err |-> "USERNAME_EMPTY", ret |-> <<>>]
    ELSE LET value == strip(value0)
         IN  IF Len(value) < MinUsername THEN [err |-> "USERNAME_TOO_SHORT", ret |-> <<>>]
             ELSE IF Len(value) > MaxUsername THEN [err |-> "USERNAME_TOO_LONG", ret |-> <<>>]
             ELSE IF ~isalpha(value[1]) THEN [err |-> "USERNAME_INVALID_START", ret |-> <<>>]
             ELSE IF value[Len(value)] \in {"_", "-"}
             THEN [err |-> "USERNAME_INVALID_END", ret |-> <<>>]
             ELSE IF \/ contains(value, "_", "_") \/ contains(value, "-", "-")
                     \/ contains(value, "_", "-") \/ contains(value, "-", "_")
             THEN [err |-> "USERNAME_CONSECUTIVE_SPECIAL", ret |-> <<>>]
             ELSE IF ~username_pattern(value)
             THEN IF ToSet(value) \ valid_chars # {}
                  THEN [err |-> "USERNAME_INVALID_CHARACTERS", ret |-> <<>>]
                  ELSE [err |-> "USERNAME_INVALID_FORMAT", ret |-> <<>>]
             ELSE [err |-> OK, ret |-> value]

\* Longest of the short usernames callers pass.
MaxName == 4

\* Usernames callers pass: every short one over a few characters, and long
\* ones around the upper limit: a start, letters, an end.
ShortNames == UNION { [1..k -> {"a", "Z", "1", "_", "-", " ", "é"}] : k \in 0..MaxName }
LongNames ==
    { <<f>> \o [i \in 1..k |-> "a"] \o <<e>> :
        f \in {"a", "1"}, e \in {"Z", "_", " "},
        k \in (MaxUsername - 3)..(MaxUsername - 1) }

ValidateUsernameFormat(value) ==
    /\ LET res == validate_username_format(value)
       IN  last' = Call("validate_username_format", [value |-> value], res.err,
                        NoTask, NoTask, res.ret)
    /\ UNCHANGED <<now, heap, lists, user, ctx>>

ValidateUsernameFormatStep ==
    Idle /\ \E v \in ShortNames \cup LongNames : ValidateUsernameFormat(v)

\* The validators of strings.
NextValid ==
    \/ ValidateHexColorStep
    \/ ValidateEmailFormatStep
    \/ ValidateUsernameFormatStep
    \/ Return

SpecValid == Init /\ [][NextValid]_vars

\* validate_future_date as time passes.
DateTickStep == Idle /\ Tick

NextDate ==
    \/ ValidateFutureDateStep
    \/ DateTickStep
    \/ Return

SpecDate == Init /\ [][NextDate]_vars

----------------------------------------------------------------------------
(* Properties of Task *)

\* The fields mark_complete leaves alone.
SameButStatus(a, b) ==
    /\ a.id = b.id
    /\ a.title = b.title
    /\ a.description = b.description
    /\ a.priority = b.priority
    /\ a.tags = b.tags
    /\ a.due_date = b.due_date
    /\ a.created_at = b.created_at

\* C1: mark_complete() on a TODO or IN_PROGRESS task succeeds and returns a
\* task with status DONE, completed_at equal to the time of the call, and
\* id, title, description, priority, tags, due_date and created_at equal to
\* the receiver's.
C1_MarkCompleteSucceeds ==
    (last.op = "mark_complete" /\ last.pre.status \in {TODO, IN_PROGRESS}) =>
        /\ last.err = OK
        /\ last.ret.status = DONE
        /\ last.ret.completed_at # Null
        /\ last.ret.completed_at = last.at
        /\ SameButStatus(last.ret, last.pre)

C1_Witness ==
    /\ last.op = "mark_complete"
    /\ last.pre.status = IN_PROGRESS
    /\ last.pre.id # Null
    /\ last.pre.due_date # Null
    /\ last.pre.created_at < last.at
    /\ last.err = OK

\* C2: mark_complete() on a DONE task fails with ALREADY_COMPLETED, on an
\* ARCHIVED task with ARCHIVED_TASK_COMPLETION, and it returns nothing; a
\* call on the task the preceding successful mark_complete() returned fails.
C2_Step ==
    (last'.op = "mark_complete" /\ last' # last) =>
        /\ last'.pre.status = DONE =>
              last'.err = "ALREADY_COMPLETED" /\ last'.ret = NoTask
        /\ last'.pre.status = ARCHIVED =>
              last'.err = "ARCHIVED_TASK_COMPLETION" /\ last'.ret = NoTask
        /\ (last.op = "mark_complete" /\ last.err = OK /\ last'.pre = last.ret) =>
              last'.err # OK /\ last'.ret = NoTask

C2_CompletedOrArchivedRejected == [][C2_Step]_vars

C2_Witness ==
    /\ last.op = "mark_complete"
    /\ last.pre.status = DONE
    /\ last.pre.completed_at # Null
    /\ last.err = "ALREADY_COMPLETED"

\* C3 as claimed: constructing a Task with status ARCHIVED and completed_at
\* null always fails with ARCHIVED_WITHOUT_COMPLETION and yields no Task.
C3_Original ==
    (last.op = "Task" /\ last.args.status = ARCHIVED
        /\ last.args.completed_at = Null) =>
        last.err = "ARCHIVED_WITHOUT_COMPLETION" /\ last.ret = NoTask

\* The title has a character that is not a space.
TitleAccepted(title) == \E i \in 1..Len(title) : title[i] # " "

\* The due date is absent, or the day is no 29 February and the due date is
\* at most a year before the call.
DueDateAccepted(d, t, feb29) == d = Null \/ (~feb29 /\ d >= t - OneYear)

\* C3 as amended: constructing a Task with status ARCHIVED and completed_at
\* null always fails and yields no Task; the code is
\* ARCHIVED_WITHOUT_COMPLETION whenever the other fields pass their own
\* validators, which run first and report their own error.
C3_ArchivedWithoutCompletion ==
    (last.op = "Task" /\ last.args.status = ARCHIVED
        /\ last.args.completed_at = Null) =>
        /\ last.err # OK
        /\ last.ret = NoTask
        /\ (TitleAccepted(last.args.title)
              /\ DueDateAccepted(last.args.due_date, last.at, last.args.feb29)) =>
              last.err = "ARCHIVED_WITHOUT_COMPLETION"

C3_Witness ==
    /\ last.op = "Task"
    /\ last.args.status = ARCHIVED
    /\ last.args.completed_at = Null
    /\ last.args.due_date # Null
    /\ last.err = "ARCHIVED_WITHOUT_COMPLETION"

\* C4: in every TODO, IN_PROGRESS or DONE task, completed_at is non-null
\* exactly when status is DONE.
C4_CompletedAtIffDone ==
    \A r \in Refs :
        heap[r].status \in {TODO, IN_PROGRESS, DONE} =>
            (heap[r].completed_at # Null <=> heap[r].status = DONE)

\* C5: in every task, status ARCHIVED implies completed_at is non-null.
C5_ArchivedHasCompletedAt ==
    \A r \in Refs : heap[r].status = ARCHIVED => heap[r].completed_at # Null

\* The task a call produced: the object returned, or the receiver after an
\* assignment.
Outcome == IF last.op \in {"Task", "copy", "mark_complete"} THEN last.ret ELSE last.post

\* C6: no constructor call, copy with a status update, status assignment or
\* mark_complete takes a task from TODO or IN_PROGRESS, or from nothing, to
\* ARCHIVED: an ARCHIVED outcome comes from a DONE (or ARCHIVED) task.
C6_ArchivedOnlyFromDone ==
    (last.op \in {"Task", "copy", "status=", "mark_complete"}
        /\ last.err = OK /\ Outcome.status = ARCHIVED) =>
        last.pre.status \in {DONE, ARCHIVED}

\* DateValidationException codes.
DateRangeErrors == {"DUE_DATE_FAR_PAST", "DUE_DATE_INVALID"}

\* created_at as the constructor takes it: supplied, or the clock.
CreatedAtOf(a, t) == IF a.created_at = Null THEN t ELSE a.created_at

\* C7: constructing a Task, or assigning due_date on a Task, with due_date
\* earlier than created_at fails with a date-range error and leaves no new
\* value behind.  (The other half of the claim, that a due_date not before
\* created_at is accepted even when it is in the past, is not part of this
\* formula: the code refuses such a due_date when it lies more than a year
\* back, and any due_date at all on a 29 February.)
C7_DueDateNotBeforeCreatedAt ==
    /\ (last.op = "Task" /\ last.args.due_date # Null
          /\ TitleAccepted(last.args.title)
          /\ last.args.due_date < CreatedAtOf(last.args, last.at)) =>
          last.err \in DateRangeErrors /\ last.ret = NoTask
    /\ (last.op = "due_date=" /\ last.args.value # Null
          /\ last.args.value < last.pre.created_at) =>
          last.err \in DateRangeErrors /\ last.post = last.pre

----------------------------------------------------------------------------
(* Properties of TaskList *)

\* No two tasks with an id have the same id.
NoDuplicateIds(tasks) ==
    \A i, j \in 1..Len(tasks) :
        (i # j /\ tasks[i].id # Null) => tasks[i].id # tasks[j].id

\* C8: in every TaskList that a constructor call or an add_task call on an
\* earlier list has produced, no two tasks with a non-null id have the same
\* id.
C8_NoDuplicateTaskIds ==
    /\ \A l \in ListRefs : NoDuplicateIds(lists[l].tasks)
    /\ last.op \in {"TaskList", "add_task"} =>
          NoDuplicateIds(last.pre.tasks) /\ NoDuplicateIds(last.ret.tasks)

C8_Witness ==
    /\ last.op = "add_task"
    /\ last.err = OK
    /\ last.args.task.id # Null
    /\ \E i, j \in 1..Len(last.pre.tasks) :
          i # j /\ last.pre.tasks[i].id # Null /\ last.pre.tasks[j].id = Null
    /\ \E l \in ListRefs : lists[l] = last.ret /\ Len(lists[l].tasks) >= 3

\* How many of the tasks have the id i.
Occurrences(tasks, i) == Cardinality({k \in 1..Len(tasks) : tasks[k].id = i})

\* The non-null ids that more than one of the tasks has.
Repeated(tasks) == {i \in Ids : Occurrences(tasks, i) > 1}

\* The details of DUPLICATE_TASK_IDS_IN_LIST are as C9 gives them.
DuplicateDetails ==
    /\ last.details.duplicate_ids = Repeated(last.args.tasks)
    /\ last.details.total_tasks = Len(last.args.tasks)
    /\ last.details.unique_ids =
          Cardinality({i \in Ids : Occurrences(last.args.tasks, i) > 0})

\* C9 as claimed: the TaskList constructor fails with
\* DUPLICATE_TASK_IDS_IN_LIST exactly when a non-null id occurs more than
\* once among the tasks given, with details.duplicate_ids the ids occurring
\* more than once, total_tasks the number of tasks and unique_ids the number
\* of distinct non-null ids.
C9_Original ==
    last.op = "TaskList" =>
        /\ last.err = "DUPLICATE_TASK_IDS_IN_LIST" <=>
              Repeated(last.args.tasks) # {}
        /\ last.err = "DUPLICATE_TASK_IDS_IN_LIST" => DuplicateDetails

\* The name has a character and all its characters are spaces.
WhitespaceOnly(name) == Len(name) >= 1 /\ \A i \in 1..Len(name) : name[i] = " "

\* C9 as amended: with a name that is not whitespace only, the TaskList
\* constructor fails with DUPLICATE_TASK_IDS_IN_LIST exactly when a non-null
\* id occurs more than once among the tasks given, and the details are as
\* claimed; tasks with a null id never cause that failure.  With a name of
\* whitespace only it fails with TASKLIST_NAME_EMPTY, whatever the ids.
C9_DuplicateIdsRejected ==
    last.op = "TaskList" =>
        /\ WhitespaceOnly(last.args.name) => last.err = "TASKLIST_NAME_EMPTY"
        /\ ~WhitespaceOnly(last.args.name) =>
              /\ last.err = "DUPLICATE_TASK_IDS_IN_LIST" <=>
                    Repeated(last.args.tasks) # {}
              /\ last.err = "DUPLICATE_TASK_IDS_IN_LIST" => DuplicateDetails

C9_Witness ==
    /\ last.op = "TaskList"
    /\ last.err = "DUPLICATE_TASK_IDS_IN_LIST"
    /\ Len(last.args.tasks) = 4
    /\ \E i \in Ids : Occurrences(last.args.tasks, i) = 1
    /\ Occurrences(last.args.tasks, Null) = 1
    /\ Cardinality(last.details.duplicate_ids) = 1

\* C10: add_task(task) fails with DUPLICATE_TASK_IN_ADD, its details naming
\* task.id, exactly when task.id is non-null and a task of the list has that
\* id; a task with a null id is never refused, whatever the list contains.
C10_AddTaskRejectsDuplicate ==
    last.op = "add_task" =>
        /\ last.err = "DUPLICATE_TASK_IN_ADD" <=>
              /\ last.args.task.id # Null
              /\ \E i \in 1..Len(last.pre.tasks) :
                    last.pre.tasks[i].id = last.args.task.id
        /\ last.err = "DUPLICATE_TASK_IN_ADD" =>
              last.details.task_id = ToString(last.args.task.id)
        /\ last.err \in {OK, "DUPLICATE_TASK_IN_ADD"}
        /\ last.args.task.id = Null => last.err = OK

C10_Witness ==
    /\ last.op = "add_task"
    /\ last.err = "DUPLICATE_TASK_IN_ADD"
    /\ Len(last.pre.tasks) >= 2
    /\ last.pre.tasks[1].id = last.args.task.id
    /\ last.details.task_id = "1"

\* C11: a successful add_task(task) returns a TaskList whose tasks are the
\* receiver's tasks in their order followed by task as the last element,
\* one longer than the receiver's, with the receiver's name, owner and
\* created_at.
C11_AddTaskAppends ==
    (last.op = "add_task" /\ last.err = OK) =>
        /\ Len(last.ret.tasks) = Len(last.pre.tasks) + 1
        /\ \A i \in 1..Len(last.pre.tasks) : last.ret.tasks[i] = last.pre.tasks[i]
        /\ last.ret.tasks[Len(last.ret.tasks)] = last.args.task
        /\ last.ret.name = last.pre.name
        /\ last.ret.owner = last.pre.owner
        /\ last.ret.created_at = last.pre.created_at

C11_Witness ==
    /\ last.op = "add_task"
    /\ last.err = OK
    /\ Len(last.pre.tasks) = 2
    /\ last.pre.tasks[1] # last.pre.tasks[2]
    /\ last.args.task # last.pre.tasks[1]
    /\ last.pre.created_at # last.at
    /\ Len(last.ret.tasks) = 3

\* C12: add_task and mark_complete never modify the object they are called
\* on: after a successful call the receiver, and every other Task and
\* TaskList that existed before the call, has the fields it had before.
C12_Step ==
    (last'.op \in {"add_task", "mark_complete"} /\ last'.err = OK) =>
        /\ last'.post = last'.pre
        /\ \A r \in Refs : IsTask(heap[r]) => heap'[r] = heap[r]
        /\ \A l \in ListRefs : lists[l] # NoList => lists'[l] = lists[l]

C12_ReceiverUnchanged == [][C12_Step]_vars

C12_Witness ==
    /\ last.op = "add_task"
    /\ last.err = OK
    /\ \E l \in ListRefs : lists[l] = last.pre /\ Len(lists[l].tasks) = 1
    /\ \E l \in ListRefs : lists[l] = last.ret /\ Len(lists[l].tasks) = 2
    /\ \E r \in Refs, d \in Refs :
          /\ heap[r].status = TODO
          /\ heap[d] = [heap[r] EXCEPT !.status = DONE, !.completed_at = now]
          /\ last.pre.tasks[1] = heap[d]

\* The positions of the tasks that are overdue at instant t.
OverduePositions(tasks, t) ==
    {i \in 1..Len(tasks) :
        tasks[i].due_date # Null /\ tasks[i].due_date < t /\ tasks[i].status # DONE}

\* C13: get_overdue_tasks returns, in list order, exactly the tasks whose
\* due_date is non-null and strictly earlier than the current time and whose
\* status is not DONE; ARCHIVED tasks with a past due date are among them.
C13_OverdueTasks ==
    last.op = "get_overdue_tasks" =>
        LET pos == OverduePositions(last.pre.tasks, last.at)
        IN  /\ last.err = OK
            /\ Len(last.ret) = Cardinality(pos)
            /\ \A i \in pos :
                  last.ret[Cardinality({j \in pos : j <= i})] = last.pre.tasks[i]

C13_Witness ==
    /\ last.op = "get_overdue_tasks"
    /\ Len(last.pre.tasks) = 3
    /\ Len(last.ret) = 2
    /\ last.ret[1] # last.ret[2]
    /\ last.ret[2].status = ARCHIVED
    /\ last.pre.tasks[2].due_date = last.at
    /\ last.pre.tasks[2].status = TODO

----------------------------------------------------------------------------
(* Properties of User *)

\* Two of the task lists have names that are equal ignoring case.
Collides(v) ==
    \E i, j \in 1..Len(v) : i # j /\ lower(v[i].name) = lower(v[j].name)

\* The names, in their original casing, that another of the lists has too,
\* ignoring case.
CollidingNames(v) ==
    {v[i].name : i \in {k \in 1..Len(v) :
                           \E j \in 1..Len(v) : j # k /\ lower(v[j].name) = lower(v[k].name)}}

\* The call failed as C14 says a call with colliding names fails, and left
\* no new task lists behind.
DuplicateNamesRejected ==
    /\ last.err = "DUPLICATE_TASKLIST_NAMES"
    /\ last.details.comparison = "case-insensitive"
    /\ last.details.duplicate_names = CollidingNames(last.args.task_lists)
    /\ last.post = last.pre
    /\ last.ret = NoUser

\* C14 as claimed: no User ever has two task lists with names equal
\* ignoring case; construction and every replacement of task_lists with
\* such a pair fail with DUPLICATE_TASKLIST_NAMES, comparison
\* "case-insensitive" and duplicate_names exactly the colliding names in
\* their original casing.
C14_Original ==
    /\ ~Collides(user.task_lists)
    /\ (last.op \in {"User", "task_lists="} /\ Collides(last.args.task_lists)) =>
          DuplicateNamesRejected

\* The username validator raises no error of its own (an error pydantic
\* finds, the length, is reported after all fields).
UsernamePasses(v) == User_validate_username_format(v).err \in {OK, "ValidationError"}

\* C14 as amended: no User ever has two task lists with names equal
\* ignoring case.  Every replacement of task_lists with such a pair fails
\* with DUPLICATE_TASKLIST_NAMES and the details claimed; so does
\* construction, unless the username or the email validator raises its own
\* error first, and then construction fails with that error.
C14_NoDuplicateListNames ==
    /\ ~Collides(user.task_lists)
    /\ (last.op = "task_lists=" /\ Collides(last.args.task_lists)) =>
          DuplicateNamesRejected
    /\ (last.op = "User" /\ Collides(last.args.task_lists)) =>
          /\ last.err # OK /\ last.ret = NoUser
          /\ (UsernamePasses(last.args.username)
                /\ User_validate_email_format(last.args.email).err = OK) =>
                DuplicateNamesRejected

C14_Witness ==
    /\ last.op = "User"
    /\ Len(last.args.task_lists) = 3
    /\ last.err = "DUPLICATE_TASKLIST_NAMES"
    /\ Cardinality(last.details.duplicate_names) = 2
    /\ \E i \in 1..3 : last.args.task_lists[i].name \notin last.details.duplicate_names

\* C15: validate_task_list_ownership(name) looks the name up ignoring case
\* and surrounding whitespace; no match: TASKLIST_NOT_FOUND listing all
\* available names; a match whose owner is not the username:
\* TASKLIST_OWNERSHIP_MISMATCH with expected and actual owner; otherwise it
\* succeeds, whether or not the user is active.
C15_OwnershipLookup ==
    last.op = "validate_task_list_ownership" =>
        LET lists_ == last.pre.task_lists
            matches == {i \in 1..Len(lists_) :
                           lower(strip(lists_[i].name)) = lower(strip(last.args.name))}
        IN  /\ matches = {} =>
                  /\ last.err = "TASKLIST_NOT_FOUND"
                  /\ ToSet(last.details.available_lists) = {lists_[i].name : i \in 1..Len(lists_)}
            /\ \A i \in matches :
                  IF lists_[i].owner # last.pre.username
                  THEN /\ last.err = "TASKLIST_OWNERSHIP_MISMATCH"
                       /\ last.details.expected_owner = last.pre.username
                       /\ last.details.actual_owner = lists_[i].owner
                  ELSE last.err = OK
            /\ last.post = last.pre

C15_Witness ==
    /\ last.op = "validate_task_list_ownership"
    /\ last.args.name = <<" ", "W", " ">>
    /\ ~last.pre.is_active
    /\ Len(last.pre.task_lists) = 2
    /\ last.pre.task_lists[2].name = <<"w">>
    /\ last.err = OK

\* C16: to_dict() fails with INACTIVE_USER_OPERATION, and returns nothing,
\* exactly when is_active is false at the time of the call; once is_active
\* is set back to true, to_dict() on the same User succeeds.
C16_InactiveUserToDict ==
    last.op = "to_dict" =>
        /\ last.err = "INACTIVE_USER_OPERATION" <=> ~last.pre.is_active
        /\ last.pre.is_active => last.err = OK
        /\ ~last.pre.is_active => last.ret = NoUser

----------------------------------------------------------------------------
(* Properties of ValidationContext *)

\* The elements of a set of call numbers, in increasing order.
Ascending(S) ==
    CHOOSE f \in [1..Cardinality(S) -> S] :
        \A i, j \in 1..Cardinality(S) : i < j => f[i] < f[j]

\* Call number of the last clear_errors in a log, 0 if there is none.
LastClear(log) ==
    LET clears == {i \in 1..Len(log) : log[i].op = "clear_errors"}
    IN  IF clears = {} THEN 0 ELSE CHOOSE i \in clears : \A j \in clears : j <= i

\* The calls of a log that recorded an error: failed validate calls and
\* add_error calls.
Recording(log) ==
    {i \in 1..Len(log) : log[i].op \in {"validate", "add_error"} /\ log[i].fails}

ValidateCalls(log) == {i \in 1..Len(log) : log[i].op = "validate"}

\* C17: validate(check) invokes check exactly once; when the check fails its
\* error is appended at the end of the error list and validate returns false
\* without propagating it; when it succeeds the list is unchanged and
\* validate returns true.
C17_ValidateRecords ==
    last.op = "validate" =>
        /\ last.post.ran = Append(last.pre.ran, last.args.check.id)
        /\ last.err = OK
        /\ IF last.args.check.fails
           THEN /\ last.post.errors = Append(last.pre.errors, last.args.check.id)
                /\ last.ret = FALSE
           ELSE /\ last.post.errors = last.pre.errors
                /\ last.ret = TRUE

C17_Witness ==
    /\ last.op = "validate"
    /\ last.args.check.fails
    /\ Len(last.pre.errors) = 2
    /\ Len(last.post.errors) = 3
    /\ last.post.errors[3] = last.args.check.id
    /\ last.ret = FALSE

C19_AllChecksRun ==
    /\ ctx.open => ctx.ran = Ascending(ValidateCalls(ctx.log))
    /\ (last.op = "exit" /\ ValidateCalls(last.pre.log) = 1..Len(last.pre.log)) =>
          /\ last.pre.ran = [i \in 1..Len(last.pre.log) |-> i]
          /\ Recording(last.pre.log) = {} => last.err = OK
          /\ Recording(last.pre.log) # {} =>
                /\ last.err = "MULTIPLE_VALIDATION_ERRORS"
                /\ last.details.errors = Ascending(Recording(last.pre.log))
                /\ Len(last.details.errors) = Cardinality(Recording(last.pre.log))

C19_Witness ==
    /\ last.op = "exit"
    /\ Len(last.pre.log) = 4
    /\ ValidateCalls(last.pre.log) = 1..4
    /\ Recording(last.pre.log) = {1, 2, 4}
    /\ last.pre.ran = <<1, 2, 3, 4>>
    /\ last.details.errors = <<1, 2, 4>>

\* C20: clear_errors() empties the error list, so has_errors() right after
\* it is false; errors recorded before the clear are never in the
\* collection raised at exit, errors recorded after it are, and with none
\* recorded after it the exit raises nothing; has_errors() and get_errors()
\* never change the list.
C20_ClearErrors ==
    /\ last.op = "clear_errors" => last.post.errors = <<>>
    /\ last.op = "has_errors" =>
          /\ last.post = last.pre
          /\ (last.pre.log # <<>> /\ LastClear(last.pre.log) = Len(last.pre.log)) =>
                last.ret = FALSE
    /\ last.op = "get_errors" => last.post = last.pre
    /\ (last.op = "exit" /\ LastClear(last.pre.log) > 0) =>
          LET after == {i \in Recording(last.pre.log) : i > LastClear(last.pre.log)}
          IN  IF after = {}
              THEN last.err = OK
              ELSE /\ last.err = "MULTIPLE_VALIDATION_ERRORS"
                   /\ last.details.errors = Ascending(after)
                   /\ \A i \in 1..Len(last.details.errors) :
                          last.details.errors[i] > LastClear(last.pre.log)

C20_Witness ==
    /\ last.op = "exit"
    /\ Len(last.pre.log) = 3
    /\ last.pre.log[1].op = "validate" /\ last.pre.log[1].fails
    /\ last.pre.log[2].op = "clear_errors"
    /\ last.pre.log[3].op = "validate" /\ last.pre.log[3].fails
    /\ last.err = "MULTIPLE_VALIDATION_ERRORS"
    /\ last.details.errors = <<3>>

----------------------------------------------------------------------------
(* Properties of the exception classes *)

ExceptionKinds ==
    {"TaskManagerException", "ValidationException", "FieldValidationException",
     "StateValidationException", "DuplicateTaskException", "TaskNotFoundException",
     "InvalidStateTransitionException", "DateValidationException", "OwnershipException"}

\* C21: every error instance of every kind that can be constructed has a
\* non-empty code, and its to_dict() is a map with exactly the keys
\* error_code, message, field_name and details, whose values are the
\* instance's code, message, field name and detail map.
C21_ErrorCodeAndDict ==
    last.op \in ExceptionKinds =>
        /\ last.pre.error_code # ""
        /\ DOMAIN last.ret = {"error_code", "message", "field_name", "details"}
        /\ last.ret.error_code = last.pre.error_code
        /\ last.ret.message = last.pre.message
        /\ last.ret.field_name = last.pre.field_name
        /\ last.ret.details = last.pre.details

----------------------------------------------------------------------------
(* Properties of the validators *)

\* '#' followed by exactly six hexadecimal digits and nothing else.
IsHexColor(v) ==
    /\ Len(v) = 7
    /\ v[1] = "#"
    /\ \A i \in 2..7 : v[i] \in HexDigits

\* C22: validate_hex_color returns exactly for the inputs that consist of
\* '#' followed by exactly six hexadecimal digits and nothing else, and then
\* returns the input uppercased; every other non-empty input fails with
\* INVALID_COLOR_FORMAT and the empty input with COLOR_EMPTY; validating a
\* returned value again returns the same value.
C22_HexColor ==
    last.op = "validate_hex_color" =>
        LET v == last.args.value
        IN  /\ last.err = OK <=> IsHexColor(v)
            /\ last.err = OK =>
                  /\ last.ret = upper(v)
                  /\ last.post.err = OK
                  /\ last.post.ret = last.ret
            /\ (v # <<>> /\ ~IsHexColor(v)) => last.err = "INVALID_COLOR_FORMAT"
            /\ v = <<>> => last.err = "COLOR_EMPTY"

\* C23: with allow_past_days = 0 validate_future_date never fails for an
\* instant strictly greater than the current time.
C23_Original ==
    (/\ last.op = "validate_future_date"
     /\ last.args.value.type = "datetime"
     /\ last.args.allow_past_days = 0
     /\ last.args.value.t > last.at) => last.err = OK

\* C23 (amended): with allow_past_days = 0 validate_future_date never
\* fails for an instant strictly greater than the current time and at most
\* 100 years after it, and for every allow_past_days it always fails for an
\* instant strictly less than the current time minus allow_past_days.
C23_FutureDateBounds ==
    (last.op = "validate_future_date" /\ last.args.value.type = "datetime") =>
        /\ (/\ last.args.allow_past_days = 0
            /\ last.args.value.t > last.at
            /\ last.args.value.t <= last.at + HundredYears) => last.err = OK
        /\ last.args.value.t < last.at - last.args.allow_past_days * Day =>
              last.err # OK

C23_Witness ==
    /\ last.op = "validate_future_date"
    /\ last.args.allow_past_days = 0
    /\ last.args.value = Datetime(last.at + HundredYears)
    /\ last.at > 0
    /\ last.err = OK

\* C24: for a timestamp value validate_future_date fails with
\* DATE_NOT_IN_FUTURE exactly when value < now - allow_past_days, otherwise
\* with DATE_TOO_FAR_FUTURE exactly when value > now + 100 years, and
\* otherwise returns value unchanged; both bounds are inclusive; a value
\* that is no timestamp fails with INVALID_DATE_TYPE.
C24_FutureDateOutcome ==
    last.op = "validate_future_date" =>
        LET v == last.args.value
            earliest == last.at - last.args.allow_past_days * Day
            latest == last.at + HundredYears
        IN  IF v.type # "datetime" THEN last.err = "INVALID_DATE_TYPE"
            ELSE /\ last.err = "DATE_NOT_IN_FUTURE" <=> v.t < earliest
                 /\ v.t >= earliest =>
                       (last.err = "DATE_TOO_FAR_FUTURE" <=> v.t > latest)
                 /\ (v.t >= earliest /\ v.t <= latest) =>
                       (last.err = OK /\ last.ret = v)
                 /\ v.t \in {earliest, latest} => last.err = OK

C24_Witness ==
    /\ last.op = "validate_future_date"
    /\ last.args.allow_past_days = MaxPastDays
    /\ last.args.value = Datetime(last.at - MaxPastDays * Day)
    /\ last.err = OK
    /\ last.ret = last.args.value

\* The code of the first failing check of validate_email_format on a
\* trimmed value, in the order of the checks; OK if none fails.
EmailParts(v) ==
    LET at == CHOOSE i \in 1..Len(v) : v[i] = "@"
    IN  [local |-> SubSeq(v, 1, at - 1), domain |-> SubSeq(v, at + 1, Len(v))]

EmailWellFormed(v) ==
    LET l == EmailParts(v).local
        d == EmailParts(v).domain
        dot == CHOOSE i \in 1..Len(d) : d[i] = "." /\ \A j \in (i + 1)..Len(d) : d[j] # "."
    IN  /\ \A i \in 1..Len(l) : l[i] \in Alnum \cup {".", "_", "%", "-"}
        /\ \A i \in 1..Len(d) : d[i] \in Alnum \cup {".", "-"}
        /\ Len(d) - dot >= 2
        /\ \A i \in (dot + 1)..Len(d) : d[i] \in Letters

FirstEmailFailure(v) ==
    IF v = <<>> THEN "EMAIL_EMPTY"
    ELSE IF "@" \notin ToSet(v) THEN "EMAIL_MISSING_AT"
    ELSE IF Cardinality({i \in 1..Len(v) : v[i] = "@"}) > 1 THEN "EMAIL_MULTIPLE_AT"
    ELSE IF EmailParts(v).local = <<>> THEN "EMAIL_EMPTY_LOCAL"
    ELSE IF EmailParts(v).domain = <<>> THEN "EMAIL_EMPTY_DOMAIN"
    ELSE IF "." \notin ToSet(EmailParts(v).domain) THEN "EMAIL_INVALID_DOMAIN"
    ELSE IF Head(EmailParts(v).domain) = "."
            \/ EmailParts(v).domain[Len(EmailParts(v).domain)] = "."
    THEN "EMAIL_INVALID_DOMAIN_FORMAT"
    ELSE IF ~EmailWellFormed(v) THEN "EMAIL_INVALID_FORMAT"
    ELSE OK

\* C25: for every input string validate_email_format fails with the code
\* of the first failing check in the order EMAIL_EMPTY, EMAIL_MISSING_AT,
\* EMAIL_MULTIPLE_AT, EMAIL_EMPTY_LOCAL, EMAIL_EMPTY_DOMAIN,
\* EMAIL_INVALID_DOMAIN, EMAIL_INVALID_DOMAIN_FORMAT, EMAIL_INVALID_FORMAT;
\* when no check fails it returns the input trimmed and lowercased, and
\* validating that result again returns it unchanged.
C25_EmailFormat ==
    last.op = "validate_email_format" =>
        /\ last.err = FirstEmailFailure(strip(last.args.value))
        /\ last.err = OK =>
              /\ last.ret = lower(strip(last.args.value))
              /\ last.post.err = OK
              /\ last.post.ret = last.ret

C25_Witness ==
    /\ last.op = "validate_email_format"
    /\ last.args.value = <<" ", "B", "@", "a", ".", "B", "a">>
    /\ last.err = OK
    /\ last.ret = <<"b", "@", "a", ".", "b", "a">>
    /\ last.post.ret = last.ret

\* The code of the first failing check of validate_username_format on a
\* trimmed value, in the order of the checks; OK if none fails.
FirstUsernameFailure(v) ==
    IF v = <<>> THEN "USERNAME_EMPTY"
    ELSE IF Len(v) < 3 THEN "USERNAME_TOO_SHORT"
    ELSE IF Len(v) > 30 THEN "USERNAME_TOO_LONG"
    ELSE IF ~isalpha(v[1]) THEN "USERNAME_INVALID_START"
    ELSE IF v[Len(v)] \in {"_", "-"} THEN "USERNAME_INVALID_END"
    ELSE IF \E i \in 1..(Len(v) - 1) : v[i] \in {"_", "-"} /\ v[i + 1] \in {"_", "-"}
    THEN "USERNAME_CONSECUTIVE_SPECIAL"
    ELSE IF \E i \in 1..Len(v) : v[i] \notin Alnum \cup {"_", "-"}
    THEN "USERNAME_INVALID_CHARACTERS"
    ELSE OK

\* C26: for every input string validate_username_format either returns the
\* trimmed input with its case preserved or fails with exactly one of the
\* seven codes, namely that of the first failing check in their order, and
\* never with another code; it returns exactly for trimmed inputs of length
\* 3 to 30 over [A-Za-z0-9_-] that start with a letter, do not end with '_'
\* or '-' and contain none of '__', '--', '_-', '-_'.
C26_UsernameFormat ==
    last.op = "validate_username_format" =>
        LET v == strip(last.args.value)
        IN  /\ last.err = FirstUsernameFailure(v)
            /\ last.err = OK => last.ret = v
            /\ last.err = OK <=>
                  /\ Len(v) \in 3..30
                  /\ \A i \in 1..Len(v) : v[i] \in Alnum \cup {"_", "-"}
                  /\ v[1] \in Letters
                  /\ v[Len(v)] \notin {"_", "-"}
                  /\ \A i \in 1..(Len(v) - 1) :
                        ~(v[i] \in {"_", "-"} /\ v[i + 1] \in {"_", "-"})

C26_Witness ==
    /\ last.op = "validate_username_format"
    /\ last.args.value = <<" ", "Z", "_", "a">>
    /\ last.err = OK
    /\ last.ret = <<"Z", "_", "a">>

----------------------------------------------------------------------------
(* Properties across entities *)

\* A Task that satisfies its invariants: completed_at is there exactly for
\* a DONE task and for an ARCHIVED one.
ValidTask(t) ==
    /\ IsTask(t)
    /\ strip(t.title) = t.title /\ t.title # <<>>
    /\ t.completed_at # Null <=> t.status \in {DONE, ARCHIVED}

\* C27: for every valid Task, in any of the four statuses (an ARCHIVED task
\* obtained from a DONE one included), constructing a Task from its
\* to_dict() succeeds and yields a Task equal to it in every field.
C27_TaskRoundTrip ==
    (last.op = "roundtrip" /\ ValidTask(last.pre)) =>
        /\ last.err = OK
        /\ last.ret = last.pre

C29_NoSharedState ==
    /\ last.op = "setattr" =>
          \A l \in ListRefs : l # last.args.via => last.post[l] = last.pre[l]
    /\ \A l \in ListRefs :
          lists[l] # NoList =>
              \A i, j \in 1..Len(lists[l].tasks) :
                  (i # j /\ heap[lists[l].tasks[i]].id # Null) =>
                      heap[lists[l].tasks[i]].id # heap[lists[l].tasks[j]].id

\* A failed call yields nothing and leaves the receiver as it was.
FailureLeavesNoTrace ==
    (/\ last.op \in {"Task", "mark_complete", "status=", "completed_at=", "due_date=",
                     "TaskList", "add_task"}
     /\ last.err # OK) =>
        /\ last.ret \in {NoTask, NoList}
        /\ last.post = last.pre

\* C28: when a constructor call, add_task, mark_complete or an in-place
\* field assignment fails with an error, no new entity is produced and
\* every field of the existing entity keeps the value it had before the
\* call, so that no entity violating one of its invariants is ever
\* observable.
C28_NoInvalidEntityObservable ==
    /\ FailureLeavesNoTrace
    /\ \A r \in Refs : IsTask(heap[r]) => ValidTask(heap[r])

====
